---- MODULE Spec2Model ----
(***************************************************************************)
(* Model of the event-capture pipeline of tracker-sdk.                     *)
(*                                                                         *)
(* Part 1: the Page-View Observer, src/src/plugins/trackers/page-tracker.ts *)
(* (module state, initPageTracking, stopPageTracking, the page-view         *)
(* capture, the history hooks and their timers).                            *)
(*                                                                         *)
(* Part 2: the Dispatch Gate, processAndSendEvent in its two revisions:     *)
(* the autoCapture module (src/unnamed/part_004) and the earlier web entry  *)
(* module (src/unnamed/part_003), with shouldSampleEvent and                *)
(* isEventLimitReached of common/utils (the copy in src/rollup.config.js).  *)
(*                                                                         *)
(* Further parts: the Click Observer, the dwell summary, the Custom Events  *)
(* plugin, the SDK entry module (initCruxstack in the segments between its  *)
(* awaits, stopCruxstack), element description, the SafeBrowser accessors,  *)
(* the selector path, an uninterrupted observer session, the clock reads of *)
(* one capture, and debounce.  Each part has its own specification and      *)
(* leaves the variables of the other parts unchanged.                       *)
(*                                                                         *)
(* Time is counted in units of 50 ms: the three setTimeout delays of the    *)
(* observer are 50 ms (guard release), 100 ms (route-change check) and      *)
(* 100 ms (settle delay after load), i.e. 1, 2 and 2 units.  Handlers run   *)
(* to completion (single-threaded event loop); timers fire in the order of  *)
(* their due time and, for equal due times, in the order they were set.     *)
(***************************************************************************)
EXTENDS Integers, Sequences, FiniteSets, TLC

\* ------------------------------------------------------------------ bounds
MaxTicks == 3        \* the clock stops advancing here
MaxStarts == 2       \* layers of history hooks (activating starts) explored
MaxTimers == 2       \* pending timers beyond which no new navigation is issued
MaxSubmits == 3      \* records submitted to the gate per session
MaxCeiling == 2      \* largest maxEventsPerSession a caller configures
MaxClicks == 3       \* click records dispatched
MaxDwellMinutes == 5  \* longest dwell formatted, in minutes (plus ten steps)
MaxCustomCalls == 2   \* calls of cruxCustom per session
MaxSdkRecords == 2    \* records dispatched by the trackers in an SDK session
MaxValueLen == 52     \* longest input value described
MaxDepth == 3         \* elements between the click target and document.body, target included
MaxPendingInits == 2  \* calls of initCruxstack suspended at the same time
DebounceWait == 2     \* the wait the debounced function is created with, in clock units
MaxDebounceCalls == 3 \* calls of the debounced function
MaxDebounceTime == 6  \* the clock of the debounce sessions stops here
MaxSkew == 1          \* most the clock advances between two consecutive reads of one capture

\* ------------------------------------------------ program constants (x 50ms)
ProcessingResetDelay == 1    \* setTimeout(..., 50)  in trackAutocapturePageView
RouteChangeDelay == 2        \* setTimeout(..., 100) in the history hooks
InitialSettleDelay == 2      \* setTimeout(..., 100) in the load listener
DefaultMaxEvents == 1000     \* maxEventsPerSession default of initializeAutocapture
DefaultSamplingRate == 100   \* samplingRate default 1, in percent

Urls == {"https://h/", "https://h/foo"}
LandingUrl == "https://h/"      \* the URL the document was loaded from

Null == [null |-> TRUE]
NoDispatcher == "null"
Dispatcher == "processAndSendEvent"

VARIABLES
  \* module state of the observer
  isActive, config, eventDispatcher,
  currentPageStartTime, currentUrl, previousPageData,
  isProcessingPageView, lastProcessedUrl,
  \* what the observer has installed in the browser
  routeHooks,          \* layers of pushState/replaceState wrappers = popstate listeners
  loadListeners,       \* "load" listeners added while the document was loading
  timers,              \* pending setTimeout callbacks, in the order they were set
  \* the browser
  location, readyState, now, snapshotApis,
  \* records handed to eventDispatcher
  dispatched,
  \* history variables
  sentThisUrl,         \* records dispatched since location last changed
  scen,                \* a history push made with the current URL captured is
                       \* the last navigation, and the observer was not stopped since
  \* the Dispatch Gate
  revision,            \* which processAndSendEvent the build contains
  isEnabled, gateConfig, eventCount,
  submitted,           \* records submitted in this session
  sinkCalls,           \* sendEventToSnowplow calls in this session
  sinkReceived,        \* sendEventToSnowplow calls that returned normally
  sinkIds,             \* the ids of the records handed to the Sink, in order
  outcome,             \* how the last call of the dispatcher ended
  \* the Click Observer
  clickIsActive, clickEventDispatcher,
  clickListeners,      \* capture-phase click listeners registered on the document
  clickDispatched,     \* records handed to clickEventDispatcher
  clickOutcome,        \* how the last click ended for the DOM event loop
  \* calls of the library functions
  arg,                 \* the argument of the call
  ret,                 \* what the call returned (NotCalled before it)
  debounceCalls,       \* calls of the debounced function: when, and with what argument
  funcCalls,           \* invocations of the function it wraps: when, and with what argument
  \* the Custom Events plugin (plugins/custom/customTrack.ts)
  isInitialized, customEventsEndpoint, browserModeEnabled,
  inBrowser,           \* what isBrowser() returns in this environment
  customCalls,         \* calls of cruxCustom made
  pendingCustom,       \* the calls of cruxCustom suspended at an await
  customResults,       \* per call, how the promise it returned is settled
  structEvents,        \* arguments of the trackStructEvent calls made
  fetchCalls,          \* arguments of the fetch calls made
  \* the SDK entry module (src/unnamed/part_001)
  sdkInitialized,      \* its isInitialized
  sdkIsEnabled,        \* its isEnabled
  sdkConfig,           \* its config: the options of the last init that ran
  sdkOutcome,          \* how the last call of initCruxstack / stopCruxstack ended
  sdkPending           \* the options of the initCruxstack calls suspended at await initEmitter

observerVars == <<isActive, config, eventDispatcher, currentPageStartTime, currentUrl,
                  previousPageData, isProcessingPageView, lastProcessedUrl>>
installedVars == <<routeHooks, loadListeners, timers>>
browserVars == <<location, readyState, now, snapshotApis>>
historyVars == <<sentThisUrl, scen>>
pageVars == <<observerVars, installedVars, browserVars, dispatched, historyVars>>
gateVars == <<revision, isEnabled, gateConfig, eventCount, submitted, sinkCalls,
              sinkReceived, sinkIds, outcome>>
clickVars == <<clickIsActive, clickEventDispatcher, clickListeners, clickDispatched,
               clickOutcome>>
debounceVars == <<debounceCalls, funcCalls>>
libVars == <<arg, ret, debounceVars>>
customStateVars == <<isInitialized, customEventsEndpoint, browserModeEnabled>>
transportVars == <<structEvents, fetchCalls>>
customVars == <<customStateVars, inBrowser, customCalls, pendingCustom, customResults,
                transportVars>>
sdkVars == <<sdkInitialized, sdkIsEnabled, sdkConfig, sdkOutcome, sdkPending>>
vars == <<pageVars, gateVars, clickVars, libVars, customVars, sdkVars>>

NotCalled == [called |-> FALSE]

\* the debounced function has not been called
DebounceIdle ==
  /\ debounceCalls = <<>>
  /\ funcCalls = <<>>

\* no library function is being called
LibIdle ==
  /\ arg = NotCalled
  /\ ret = NotCalled
  /\ DebounceIdle

\* module state of the SDK entry module when it is loaded
SdkLoaded ==
  /\ sdkInitialized = FALSE
  /\ sdkIsEnabled = FALSE
  /\ sdkConfig = <<>>
  /\ sdkOutcome = "none"
  /\ sdkPending = <<>>

DefaultEndpoint == "https://dev-uii.portqii.com/eventCollector/i"
NotSettled == [settled |-> "pending"]

\* module state of the Custom Events plugin when the module is loaded, in a
\* browser
CustomLoaded ==
  /\ isInitialized = FALSE
  /\ customEventsEndpoint = DefaultEndpoint
  /\ browserModeEnabled = FALSE
  /\ inBrowser = TRUE
  /\ customCalls = 0
  /\ pendingCustom = {}
  /\ customResults = <<>>
  /\ structEvents = <<>>
  /\ fetchCalls = <<>>

\* module state of the gate before initializeAutocapture
GateLoaded ==
  /\ isEnabled = FALSE
  /\ gateConfig = <<>>
  /\ eventCount = 0
  /\ submitted = 0
  /\ sinkCalls = 0
  /\ sinkReceived = 0
  /\ sinkIds = <<>>
  /\ outcome = "none"

\* module state of the observer when the module is loaded, and the browser
PageLoaded ==
  /\ isActive = FALSE
  /\ config = [pageViews |-> FALSE]
  /\ eventDispatcher = NoDispatcher
  /\ currentPageStartTime = 0
  /\ currentUrl = "/"
  /\ previousPageData = Null
  /\ isProcessingPageView = FALSE
  /\ lastProcessedUrl = ""
  /\ routeHooks = 0
  /\ loadListeners = 0
  /\ timers = <<>>
  /\ location = LandingUrl
  /\ readyState \in {"loading", "complete"}
  /\ now = 0
  /\ snapshotApis = TRUE
  /\ dispatched = <<>>
  /\ sentThisUrl = 0
  /\ scen = FALSE

\* module state of the Click Observer when the module is loaded
ClickLoaded ==
  /\ clickIsActive = FALSE
  /\ clickEventDispatcher = NoDispatcher
  /\ clickListeners = 0
  /\ clickDispatched = <<>>
  /\ clickOutcome = "none"

Init ==
  /\ revision = "autoCapture"
  /\ GateLoaded
  /\ PageLoaded
  /\ ClickLoaded
  /\ LibIdle
  /\ CustomLoaded
  /\ SdkLoaded

\* ------------------------------------------------------------- pure helpers
\* trackCurrentPageTime(): the value it assigns to previousPageData
PageTimeData ==
  [url |-> currentUrl, timeSpent |-> now - currentPageStartTime, exitTime |-> now]

\* calculateTimeSpent(), applied to the previousPageData it reads (formatting
\* of the summary is left out here; the fields kept are the ones it copies)
calculateTimeSpent(ppd) ==
  IF ppd = Null THEN Null
  ELSE [previousUrl |-> ppd.url, timeSpentMs |-> ppd.timeSpent,
        entryTime |-> currentPageStartTime, exitTime |-> ppd.exitTime]

\* the dwell summary a capture attaches: trackCurrentPageTime() runs first,
\* then calculateTimeSpent() reads what it stored
CaptureTimeSpent == calculateTimeSpent(PageTimeData)

\* updatePageStateForNewPage(): the URL it stores
NewPageUrl == IF location # "" THEN location ELSE "/"

\* (mutant: the route info is read after the page state has advanced)
PageViewEvent_AfterUpdate ==
  [type |-> "PAGE_VIEW", timestamp |-> now,
   routeInfo |-> [fromUrl |-> NewPageUrl, toUrl |-> location, navigationTime |-> now],
   eventData |-> [pageUrl |-> location, previousPageTimeSpent |-> CaptureTimeSpent]]

\* createPageViewEventWithRouteInfo(timeSpentData, routeInfo)
PageViewEvent ==
  [type |-> "PAGE_VIEW", timestamp |-> now,
   routeInfo |-> [fromUrl |-> currentUrl, toUrl |-> location, navigationTime |-> now],
   eventData |-> [pageUrl |-> location, previousPageTimeSpent |-> CaptureTimeSpent]]

\* (mutant: the capture does not re-check the active flag)
CaptureInactive_NoActiveCheck(active) == eventDispatcher = NoDispatcher

\* first guard of trackAutocapturePageView; active is isActive as the caller sees it
CaptureInactive(active) == ~active \/ eventDispatcher = NoDispatcher

\* (mutant: the guard forgets the last processed URL)
CaptureDuplicate_NoUrlCheck == isProcessingPageView

\* second guard of trackAutocapturePageView (duplicate suppression)
CaptureDuplicate == isProcessingPageView \/ location = lastProcessedUrl

\* the capture gets past both guards and record assembly throws
CaptureThrows(active) ==
  ~CaptureInactive(active) /\ ~CaptureDuplicate /\ ~snapshotApis

ReleaseTimer == [kind |-> "release", due |-> now + ProcessingResetDelay]
RouteTimer == [kind |-> "route", due |-> now + RouteChangeDelay]
InitialTimer == [kind |-> "initial", due |-> now + InitialSettleDelay]

\* setTimeout: the queue is kept in firing order, by due time and, for equal
\* due times, by the order the timers were set
SetTimeout(q, t) ==
  LET k == Cardinality({i \in 1..Len(q) : q[i].due <= t.due})
  IN SubSeq(q, 1, k) \o <<t>> \o SubSeq(q, k + 1, Len(q))

RECURSIVE SetTimeouts(_, _, _)
SetTimeouts(q, t, n) == IF n = 0 THEN q ELSE SetTimeouts(SetTimeout(q, t), t, n - 1)

\* ------------------------------------------------------ the page-view capture
captureVars == <<currentPageStartTime, currentUrl, previousPageData,
                 isProcessingPageView, lastProcessedUrl, dispatched>>

\* (mutant: the guards sit inside the try, so a skipped call also sets a release)
TrackAutocapturePageView_ReleaseOnSkip(active, pending) ==
  IF CaptureInactive(active) \/ CaptureDuplicate
  THEN /\ UNCHANGED captureVars
       /\ timers' = SetTimeout(pending, ReleaseTimer)
  ELSE /\ isProcessingPageView' = TRUE
       /\ previousPageData' = PageTimeData
       /\ currentUrl' = NewPageUrl
       /\ currentPageStartTime' = now
       /\ IF snapshotApis
          THEN /\ lastProcessedUrl' = location
               /\ dispatched' = Append(dispatched, PageViewEvent)
          ELSE UNCHANGED <<lastProcessedUrl, dispatched>>
       /\ timers' = SetTimeout(pending, ReleaseTimer)

\* (mutant: the release is set after the dispatch instead of in a finally block)
TrackAutocapturePageView_NoFinally(active, pending) ==
  IF CaptureInactive(active) \/ CaptureDuplicate
  THEN /\ UNCHANGED captureVars
       /\ timers' = pending
  ELSE /\ isProcessingPageView' = TRUE
       /\ previousPageData' = PageTimeData
       /\ currentUrl' = NewPageUrl
       /\ currentPageStartTime' = now
       /\ IF snapshotApis
          THEN /\ lastProcessedUrl' = location
               /\ dispatched' = Append(dispatched, PageViewEvent)
               /\ timers' = SetTimeout(pending, ReleaseTimer)
          ELSE /\ UNCHANGED <<lastProcessedUrl, dispatched>>
               /\ timers' = pending

\* trackAutocapturePageView(); pending is the timer queue the call starts from
TrackAutocapturePageView(active, pending) ==
  IF CaptureInactive(active) \/ CaptureDuplicate
  THEN /\ UNCHANGED captureVars
       /\ timers' = pending
  ELSE /\ isProcessingPageView' = TRUE
       /\ previousPageData' = PageTimeData
       /\ currentUrl' = NewPageUrl
       /\ currentPageStartTime' = now
       /\ IF snapshotApis
          THEN /\ lastProcessedUrl' = location
               /\ dispatched' = Append(dispatched, PageViewEvent)
          ELSE UNCHANGED <<lastProcessedUrl, dispatched>>
       /\ timers' = SetTimeout(pending, ReleaseTimer)

\* (mutant: the in-flight test of the route-change check is inverted)
RouteChanged_GuardInverted == location # currentUrl /\ isProcessingPageView

\* handleRouteChange(): the condition under which it calls the capture
RouteChanged == location # currentUrl /\ ~isProcessingPageView

HandleRouteChange(pending) ==
  IF RouteChanged
  THEN TrackAutocapturePageView(isActive, pending)
  ELSE UNCHANGED captureVars /\ timers' = pending

\* cleanupRouteChangeDetection(): the hook layers left installed after it
CleanupRouteChangeDetection(hooks) == hooks

\* ----------------------------------------------------------- history variables
ScenarioStart(op) ==
  /\ op = "pushState"
  /\ isActive /\ eventDispatcher # NoDispatcher
  /\ lastProcessedUrl = location /\ currentUrl = location
  /\ location' # location

HistoryUpdate(op) ==
  /\ sentThisUrl' = (IF location' # location THEN 0 ELSE sentThisUrl)
                      + (Len(dispatched') - Len(dispatched))
  /\ scen' = IF ScenarioStart(op)
             THEN TRUE
             ELSE IF location' # location \/ (isActive /\ ~isActive')
                  THEN FALSE
                  ELSE scen

History(op) ==
  /\ UNCHANGED <<gateVars, clickVars, libVars, customVars, sdkVars>>
  /\ HistoryUpdate(op)

\* ------------------------------------------------------------------ actions
\* (mutant: a start on an active observer is not ignored)
InitIgnored_NoActiveCheck(pv) == ~pv

\* the two early returns of initPageTracking
InitIgnored(pv) == isActive \/ ~pv

\* initPageTracking(trackingConfig), pv being trackingConfig.pageViews
InitPageTrackingCall(pv) ==
  /\ InitIgnored(pv) \/ routeHooks < MaxStarts
  /\ IF InitIgnored(pv)
     THEN UNCHANGED <<observerVars, installedVars, dispatched>>
     ELSE /\ config' = [pageViews |-> pv]
          /\ isActive' = TRUE
          /\ UNCHANGED eventDispatcher
          /\ IF readyState = "complete"
             THEN /\ TrackAutocapturePageView(TRUE, timers)
                  /\ UNCHANGED loadListeners
             ELSE /\ loadListeners' = loadListeners + 1
                  /\ UNCHANGED <<captureVars, timers>>
          \* an exception thrown by the initial capture leaves initPageTracking
          \* before setupRouteChangeDetection()
          /\ routeHooks' = IF readyState = "complete" /\ CaptureThrows(TRUE)
                           THEN routeHooks ELSE routeHooks + 1
  /\ UNCHANGED browserVars

InitPageTracking(pv) ==
  /\ InitPageTrackingCall(pv)
  /\ History("initPageTracking")

\* (mutant: stop flushes the final dwell time to the dispatcher as a record)
StopPageTracking_Flush ==
  /\ IF ~isActive
     THEN UNCHANGED <<observerVars, routeHooks, dispatched>>
     ELSE /\ previousPageData' = PageTimeData
          /\ dispatched' = Append(dispatched, PageViewEvent)
          /\ routeHooks' = CleanupRouteChangeDetection(routeHooks)
          /\ isActive' = FALSE
          /\ eventDispatcher' = NoDispatcher
          /\ UNCHANGED <<config, currentPageStartTime, currentUrl,
                         isProcessingPageView, lastProcessedUrl>>
  /\ UNCHANGED <<loadListeners, timers, browserVars>>
  /\ History("stopPageTracking")

\* stopPageTracking()
StopPageTrackingCall ==
  /\ IF ~isActive
     THEN UNCHANGED <<observerVars, routeHooks>>
     ELSE /\ previousPageData' = PageTimeData
          /\ routeHooks' = CleanupRouteChangeDetection(routeHooks)
          /\ isActive' = FALSE
          /\ eventDispatcher' = NoDispatcher
          /\ UNCHANGED <<config, currentPageStartTime, currentUrl,
                         isProcessingPageView, lastProcessedUrl>>
  /\ UNCHANGED <<loadListeners, timers, browserVars, dispatched>>

StopPageTracking ==
  /\ StopPageTrackingCall
  /\ History("stopPageTracking")

\* setPageEventDispatcher(dispatcher)
SetPageEventDispatcher ==
  /\ eventDispatcher' = Dispatcher
  /\ UNCHANGED <<isActive, config, captureVars, installedVars, browserVars>>
  /\ History("setPageEventDispatcher")

\* trackAutocapturePageView() called by the application
ManualPageView ==
  /\ TrackAutocapturePageView(isActive, timers)
  /\ UNCHANGED <<isActive, config, eventDispatcher, routeHooks, loadListeners,
                 browserVars>>
  /\ History("trackAutocapturePageView")

\* trackCurrentPageTime() called by the application
ManualPageTime ==
  /\ previousPageData' = PageTimeData
  /\ UNCHANGED <<isActive, config, eventDispatcher, currentPageStartTime, currentUrl,
                 isProcessingPageView, lastProcessedUrl, installedVars, browserVars,
                 dispatched>>
  /\ History("trackCurrentPageTime")

\* a history API call or traversal moves the location; every installed hook
\* layer sets one route-change timer
Navigate(u, op) ==
  /\ Len(timers) + routeHooks <= MaxTimers
  /\ location' = u
  /\ timers' = SetTimeouts(timers, RouteTimer, routeHooks)
  /\ UNCHANGED <<observerVars, routeHooks, loadListeners, readyState, now,
                 snapshotApis, dispatched>>
  /\ History(op)

\* history.pushState(...) through the wrappers of setupRouteChangeDetection
PushState(u) == Navigate(u, "pushState")

\* history.replaceState(...) through the wrappers of setupRouteChangeDetection
ReplaceState(u) == Navigate(u, "replaceState")

\* back/forward: the popstate listeners of setupRouteChangeDetection
PopState(u) == Navigate(u, "popstate")

\* the document finishes loading: every "load" listener sets its settle timer
LoadEvent ==
  /\ readyState = "loading"
  /\ readyState' = "complete"
  /\ timers' = SetTimeouts(timers, InitialTimer, loadListeners)
  /\ UNCHANGED <<observerVars, routeHooks, loadListeners, location, now,
                 snapshotApis, dispatched>>
  /\ History("load")

\* the event loop runs the head of the queue once it is due
TimerDue(kind) == timers # <<>> /\ Head(timers).due <= now /\ Head(timers).kind = kind

\* time passes (only when no timer is due)
Tick ==
  /\ now < MaxTicks
  /\ timers # <<>> => Head(timers).due > now
  /\ now' = now + 1
  /\ UNCHANGED <<observerVars, installedVars, location, readyState, snapshotApis,
                 dispatched>>
  /\ History("tick")

\* setTimeout(() => { isProcessingPageView = false }, 50)
FireRelease ==
  /\ TimerDue("release")
  /\ isProcessingPageView' = FALSE
  /\ timers' = Tail(timers)
  /\ UNCHANGED <<isActive, config, eventDispatcher, currentPageStartTime, currentUrl,
                 previousPageData, lastProcessedUrl, routeHooks, loadListeners,
                 browserVars, dispatched>>
  /\ History("timer:release")

\* setTimeout(() => handleRouteChange(), 100)
FireRouteCheck ==
  /\ TimerDue("route")
  /\ HandleRouteChange(Tail(timers))
  /\ UNCHANGED <<isActive, config, eventDispatcher, routeHooks, loadListeners,
                 browserVars>>
  /\ History("timer:route")

\* setTimeout(() => trackAutocapturePageView(), 100) of the load listener
FireInitial ==
  /\ TimerDue("initial")
  /\ TrackAutocapturePageView(isActive, Tail(timers))
  /\ UNCHANGED <<isActive, config, eventDispatcher, routeHooks, loadListeners,
                 browserVars>>
  /\ History("timer:initial")

Next ==
  \/ \E pv \in BOOLEAN : InitPageTracking(pv)
  \/ StopPageTracking
  \/ SetPageEventDispatcher
  \/ ManualPageView
  \/ ManualPageTime
  \/ \E u \in Urls : PushState(u)
  \/ \E u \in Urls : ReplaceState(u)
  \/ \E u \in Urls : PopState(u)
  \/ LoadEvent
  \/ Tick
  \/ FireRelease
  \/ FireRouteCheck
  \/ FireInitial

Spec == Init /\ [][Next]_vars

\* the observer in a browser whose performance.timing may be missing, so that
\* extractPerformanceData throws inside the capture
InitEnrich ==
  /\ revision = "autoCapture"
  /\ GateLoaded
  /\ ClickLoaded
  /\ LibIdle
  /\ CustomLoaded
  /\ SdkLoaded
  /\ isActive = FALSE
  /\ config = [pageViews |-> FALSE]
  /\ eventDispatcher = NoDispatcher
  /\ currentPageStartTime = 0
  /\ currentUrl = "/"
  /\ previousPageData = Null
  /\ isProcessingPageView = FALSE
  /\ lastProcessedUrl = ""
  /\ routeHooks = 0
  /\ loadListeners = 0
  /\ timers = <<>>
  /\ location = LandingUrl
  /\ readyState \in {"loading", "complete"}
  /\ now = 0
  /\ snapshotApis \in BOOLEAN
  /\ dispatched = <<>>
  /\ sentThisUrl = 0
  /\ scen = FALSE

SpecEnrich == InitEnrich /\ [][Next]_vars

\* ============================================================== Dispatch Gate
\* the builds of the gate: processAndSendEvent of the autoCapture module, of the
\* web entry module, and createAndSendEvent of the first web entry module
Revisions == {"autoCapture", "web", "legacy"}
SamplingRates == {-50, 0, 50}    \* percent
Draws == {0, 49, 50, 99}         \* Math.random(), in percent
Rands == {1, 2}                  \* Math.random().toString(36).substr(2, 9)

\* { ...defaults, ...config }
Merge(defaults, cfg) ==
  [f \in DOMAIN defaults \cup DOMAIN cfg |->
     IF f \in DOMAIN cfg THEN cfg[f] ELSE defaults[f]]

Defaults ==
  [samplingRate |-> DefaultSamplingRate, maxEventsPerSession |-> DefaultMaxEvents]

\* the configurations a caller passes to initializeAutocapture / initCruxstackConfig
\* (without the onEvent and onError callbacks of the first web entry module)
UserConfigs ==
  {Merge(a, b) :
     a \in {<<>>} \cup {[maxEventsPerSession |-> m] : m \in 0..MaxCeiling},
     b \in {<<>>} \cup {[samplingRate |-> r] : r \in SamplingRates}}

Has(cfg, f) == f \in DOMAIN cfg

\* shouldSampleEvent(config) of common/utils, draw being the value of Math.random()
shouldSampleEvent(cfg, draw) ==
  IF ~Has(cfg, "samplingRate") \/ cfg.samplingRate <= 0
  THEN FALSE
  ELSE IF cfg.samplingRate >= 100 THEN TRUE ELSE draw <= cfg.samplingRate

\* shouldSampleEvent(config) of utils.ts, which the first web entry module imports
shouldSampleEventUtils(cfg, draw) ==
  IF ~Has(cfg, "samplingRate") \/ cfg.samplingRate = 0 \/ cfg.samplingRate >= 100
  THEN TRUE
  ELSE draw < cfg.samplingRate

\* isEventLimitReached(eventCount, config)
isEventLimitReached(count, cfg) ==
  IF ~Has(cfg, "maxEventsPerSession") \/ cfg.maxEventsPerSession = 0
  THEN FALSE
  ELSE count >= cfg.maxEventsPerSession

\* generateEventId(): the timestamp and the random suffix
generateEventId(rand) == <<now, rand>>

\* initializeAutocapture: autoCapture takes (config, isEnabled); web takes none,
\* sets its own configuration and resets the counter; initCruxstackConfig of the
\* first web entry module merges the caller's configuration and enables capture
InitializeAutocapture(cfg, enabled) ==
  /\ IF revision = "autoCapture"
     THEN /\ gateConfig' = Merge(Defaults, cfg)
          /\ isEnabled' = enabled
     ELSE IF revision = "web"
     THEN /\ gateConfig' = Defaults
          /\ isEnabled' = TRUE
     ELSE /\ gateConfig' = Merge(Defaults, cfg)
          /\ isEnabled' = TRUE
  /\ eventCount' = 0
  /\ submitted' = 0
  /\ sinkCalls' = 0
  /\ sinkReceived' = 0
  /\ sinkIds' = <<>>
  /\ outcome' = "none"
  /\ UNCHANGED <<revision, pageVars, clickVars, libVars, customVars, sdkVars>>

\* a record leaves the gate at one of its early returns
Dropped ==
  /\ outcome' = "dropped"
  /\ UNCHANGED <<eventCount, sinkCalls, sinkReceived, sinkIds>>

\* (mutant: the gate has no catch around the send)
SendToSink_NoCatch(sendOk, rand) ==
  /\ sinkCalls' = sinkCalls + 1
  /\ sinkIds' = Append(sinkIds, generateEventId(rand))
  /\ sinkReceived' = IF sendOk THEN sinkReceived + 1 ELSE sinkReceived
  /\ outcome' = IF sendOk THEN "sent" ELSE "threw"

\* the id is added and the record handed to the Sink inside try/catch;
\* sendOk: the transport does not throw
SendToSink(sendOk, rand) ==
  /\ sinkCalls' = sinkCalls + 1
  /\ sinkIds' = Append(sinkIds, generateEventId(rand))
  /\ sinkReceived' = IF sendOk THEN sinkReceived + 1 ELSE sinkReceived
  /\ outcome' = IF sendOk THEN "sent" ELSE "caught"

\* processAndSendEvent of the autoCapture module
ProcessAndSendEventAutoCapture(draw, sendOk, rand) ==
  IF ~isEnabled \/ ~shouldSampleEvent(gateConfig, draw)
  THEN Dropped
  ELSE /\ SendToSink(sendOk, rand)
       /\ UNCHANGED eventCount

\* (mutant: the web entry module counts the record before its checks)
ProcessAndSendEventWeb_CountFirst(draw, sendOk, rand) ==
  IF \/ ~isEnabled
     \/ isEventLimitReached(eventCount, gateConfig)
     \/ ~shouldSampleEvent(gateConfig, draw)
  THEN /\ outcome' = "dropped"
       /\ eventCount' = eventCount + 1
       /\ UNCHANGED <<sinkCalls, sinkReceived, sinkIds>>
  ELSE /\ SendToSink(sendOk, rand)
       /\ eventCount' = IF sendOk THEN eventCount + 1 ELSE eventCount

\* processAndSendEvent of the web entry module
ProcessAndSendEventWeb(draw, sendOk, rand) ==
  IF \/ ~isEnabled
     \/ isEventLimitReached(eventCount, gateConfig)
     \/ ~shouldSampleEvent(gateConfig, draw)
  THEN Dropped
  ELSE /\ SendToSink(sendOk, rand)
       /\ eventCount' = IF sendOk THEN eventCount + 1 ELSE eventCount

\* createAndSendEvent of the first web entry module: eventCount++ follows the
\* try/catch around the handler
CreateAndSendEvent(draw, sendOk, rand) ==
  IF \/ ~isEnabled
     \/ isEventLimitReached(eventCount, gateConfig)
     \/ ~shouldSampleEventUtils(gateConfig, draw)
  THEN Dropped
  ELSE /\ SendToSink(sendOk, rand)
       /\ eventCount' = eventCount + 1

\* an observer hands a record to its dispatcher
Submit(draw, sendOk, rand) ==
  /\ submitted < MaxSubmits
  /\ submitted' = submitted + 1
  /\ IF revision = "autoCapture"
     THEN ProcessAndSendEventAutoCapture(draw, sendOk, rand)
     ELSE IF revision = "web"
     THEN ProcessAndSendEventWeb(draw, sendOk, rand)
     ELSE CreateAndSendEvent(draw, sendOk, rand)
  /\ UNCHANGED <<revision, isEnabled, gateConfig, pageVars, clickVars, libVars, customVars, sdkVars>>

GateInit ==
  /\ revision \in Revisions
  /\ GateLoaded
  /\ PageLoaded
  /\ ClickLoaded
  /\ LibIdle
  /\ CustomLoaded
  /\ SdkLoaded
  /\ readyState = "complete"

GateNext ==
  \/ \E cfg \in UserConfigs, enabled \in BOOLEAN : InitializeAutocapture(cfg, enabled)
  \/ \E draw \in Draws, sendOk \in BOOLEAN, rand \in Rands : Submit(draw, sendOk, rand)
  \/ Tick

SpecGate == GateInit /\ [][GateNext]_vars

\* ============================================================= Click Observer
\* click targets: elements with their tagName, type property and role attribute
\* (a field the node does not have is absent), and the document node itself
Targets ==
  {[tagName |-> "BUTTON", type |-> "submit"],
   [tagName |-> "INPUT", type |-> "button"],
   [tagName |-> "INPUT", type |-> "submit"],
   [tagName |-> "INPUT", type |-> "reset"],
   [tagName |-> "INPUT", type |-> "text"],
   [tagName |-> "DIV", role |-> "button"],
   [tagName |-> "DIV"],
   [tagName |-> "A", type |-> ""],
   [nodeName |-> "#document"]}

\* String.prototype.toLowerCase on the tag names in use
toLowerCase(str) ==
  CASE str = "BUTTON" -> "button"
    [] str = "INPUT" -> "input"
    [] str = "DIV" -> "div"
    [] str = "A" -> "a"
    [] OTHER -> str

\* element.tagName.toLowerCase() throws a TypeError when tagName is undefined
IsButtonElementThrows(t) == ~Has(t, "tagName")

\* isButtonElement(element), for a target with a tagName
isButtonElement(t) ==
  LET tagName == toLowerCase(t.tagName)
  IN IF tagName = "button" THEN TRUE
     ELSE IF tagName = "input" /\ Has(t, "type") /\ t.type # ""
          THEN toLowerCase(t.type) \in {"button", "submit", "reset"}
          ELSE FALSE

\* the record captureButtonClickData assembles
ClickEvent(t) ==
  [type |-> "CLICK", timestamp |-> now,
   elementInfo |-> [tagName |-> toLowerCase(t.tagName)]]

\* handleButtonClick(event); captureOk: captureButtonClickData (enrichment and
\* the dispatcher call) does not throw
HandleButtonClick(t, captureOk) ==
  IF IsButtonElementThrows(t)
  THEN clickOutcome' = "threw" /\ UNCHANGED clickDispatched
  ELSE IF ~isButtonElement(t)
  THEN clickOutcome' = "ignored" /\ UNCHANGED clickDispatched
  ELSE IF ~captureOk
  THEN clickOutcome' = "caught" /\ UNCHANGED clickDispatched
  ELSE IF clickEventDispatcher = NoDispatcher
  THEN clickOutcome' = "undispatched" /\ UNCHANGED clickDispatched
  ELSE /\ clickOutcome' = "dispatched"
       /\ clickDispatched' = Append(clickDispatched, ClickEvent(t))

\* initClickTracking(config), in a browser; clicks is config.clicks
InitClickTrackingCall(clicks) ==
  IF clickIsActive
  THEN UNCHANGED <<clickIsActive, clickListeners>>
  ELSE /\ clickListeners' = 1
       /\ clickIsActive' = TRUE

InitClickTracking(clicks) ==
  /\ InitClickTrackingCall(clicks)
  /\ UNCHANGED <<clickEventDispatcher, clickDispatched, clickOutcome>>
  /\ UNCHANGED <<pageVars, gateVars, libVars, customVars, sdkVars>>

\* (mutant: stop leaves the listener registered)
StopClickTracking_KeepsListener ==
  /\ IF ~clickIsActive
     THEN UNCHANGED <<clickIsActive, clickEventDispatcher, clickListeners>>
     ELSE /\ UNCHANGED clickListeners
          /\ clickIsActive' = FALSE
          /\ clickEventDispatcher' = NoDispatcher
  /\ UNCHANGED <<clickDispatched, clickOutcome>>
  /\ UNCHANGED <<pageVars, gateVars, libVars, customVars, sdkVars>>

\* stopClickTracking()
StopClickTrackingCall ==
  IF ~clickIsActive
  THEN UNCHANGED <<clickIsActive, clickEventDispatcher, clickListeners>>
  ELSE /\ clickListeners' = 0
       /\ clickIsActive' = FALSE
       /\ clickEventDispatcher' = NoDispatcher

StopClickTracking ==
  /\ StopClickTrackingCall
  /\ UNCHANGED <<clickDispatched, clickOutcome>>
  /\ UNCHANGED <<pageVars, gateVars, libVars, customVars, sdkVars>>

\* setClickEventDispatcher(dispatcher)
SetClickEventDispatcher ==
  /\ clickEventDispatcher' = Dispatcher
  /\ UNCHANGED <<clickIsActive, clickListeners, clickDispatched, clickOutcome>>
  /\ UNCHANGED <<pageVars, gateVars, libVars, customVars, sdkVars>>

\* a click in the document: the browser calls every registered listener
Click(t, captureOk) ==
  /\ Len(clickDispatched) < MaxClicks
  /\ IF clickListeners = 0
     THEN clickOutcome' = "unheard" /\ UNCHANGED clickDispatched
     ELSE HandleButtonClick(t, captureOk)
  /\ UNCHANGED <<clickIsActive, clickEventDispatcher, clickListeners>>
  /\ UNCHANGED <<pageVars, gateVars, libVars, customVars, sdkVars>>

ClickInit ==
  /\ revision = "autoCapture"
  /\ GateLoaded
  /\ PageLoaded
  /\ ClickLoaded
  /\ LibIdle
  /\ CustomLoaded
  /\ SdkLoaded
  /\ readyState = "complete"

ClickNext ==
  \/ \E clicks \in BOOLEAN : InitClickTracking(clicks)
  \/ StopClickTracking
  \/ SetClickEventDispatcher
  \/ \E t \in Targets, captureOk \in BOOLEAN : Click(t, captureOk)
  \/ Tick

SpecClick == ClickInit /\ [][ClickNext]_vars

\* ------------------------------------------------------- dwell formatting
\* Part 4: the formatting half of calculateTimeSpent(), applied to the dwell
\* time in milliseconds that trackCurrentPageTime() stored.

\* Math.round(x / 1000) for a non-negative integer x: halves round up
RoundSeconds(ms) == (ms + 500) \div 1000

\* const timeSpentSeconds = Math.round(timeSpentMs / 1000)
timeSpentSeconds(timeSpentMs) == RoundSeconds(timeSpentMs)

\* let timePeriod = "short"; if (> 300) "long"; else if (> 60) "medium"
timePeriod(timeSpentMs) ==
  IF timeSpentSeconds(timeSpentMs) > 300 THEN "long"
  ELSE IF timeSpentSeconds(timeSpentMs) > 60 THEN "medium"
  ELSE "short"

\* the template strings `${n} seconds` and `${m} minutes${s > 0 ? ` ${s} seconds` : ""}`
SecondsText(n) == ToString(n) \o " seconds"
MinutesText(m, s) ==
  ToString(m) \o " minutes" \o (IF s > 0 THEN " " \o SecondsText(s) ELSE "")

\* timeSpentFormatted
timeSpentFormatted(timeSpentMs) ==
  IF timeSpentSeconds(timeSpentMs) < 60
  THEN SecondsText(timeSpentSeconds(timeSpentMs))
  ELSE MinutesText(timeSpentSeconds(timeSpentMs) \div 60,
                   timeSpentSeconds(timeSpentMs) % 60)

\* the formatted fields of the object calculateTimeSpent() returns
TimeSpentSummary(timeSpentMs) ==
  [timeSpentMs |-> timeSpentMs,
   timeSpentSeconds |-> timeSpentSeconds(timeSpentMs),
   timeSpentFormatted |-> timeSpentFormatted(timeSpentMs),
   timePeriod |-> timePeriod(timeSpentMs)]

\* dwell times explored: every tenth of a second up to MaxDwellMinutes and
\* one second more
DwellTimes == {100 * k : k \in 0..(MaxDwellMinutes * 600 + 10)}

\* one call of calculateTimeSpent() with previousPageData.timeSpent = arg
CalculateTimeSpent ==
  /\ ret = NotCalled
  /\ ret' = TimeSpentSummary(arg)
  /\ UNCHANGED <<arg, debounceVars, pageVars, gateVars, clickVars, customVars, sdkVars>>

DwellInit ==
  /\ revision = "autoCapture"
  /\ GateLoaded
  /\ PageLoaded
  /\ ClickLoaded
  /\ CustomLoaded
  /\ SdkLoaded
  /\ readyState = "complete"
  /\ arg \in DwellTimes
  /\ ret = NotCalled
  /\ DebounceIdle

DwellNext == CalculateTimeSpent

SpecDwell == DwellInit /\ [][DwellNext]_vars

\* ---------------------------------------------------- Custom Events plugin
\* Part 5: cruxCustom of src/src/plugins/custom/customTrack.ts.  The function
\* is async: the call runs up to its first await and returns a promise; each
\* later action runs one continuation.  A promise rejected by the call itself
\* is settled when the call returns.

\* JavaScript values, one record shape per type
Str(s) == [str |-> s]
Num(n) == [num |-> n]
Obj(f) == [obj |-> f]
Undefined == [undefined |-> TRUE]
JsNull == [jsnull |-> TRUE]
NaN == [nan |-> TRUE]

\* typeof v
TypeOf(v) ==
  IF "str" \in DOMAIN v THEN "string"
  ELSE IF "num" \in DOMAIN v \/ "nan" \in DOMAIN v THEN "number"
  ELSE IF "undefined" \in DOMAIN v THEN "undefined"
  ELSE "object"

\* !v
Falsy(v) == v \in {Str(""), Num("0"), Undefined, JsNull, NaN}

\* obj.k for an object value
Get(o, k) == IF k \in DOMAIN o.obj THEN o.obj[k] ELSE Undefined

\* the value JSON.parse(JSON.stringify(v)) yields: fields holding undefined
\* are left out, NaN becomes null, nested objects are converted in turn
RECURSIVE JsonValue(_)
JsonValue(v) ==
  IF v = NaN THEN JsNull
  ELSE IF "obj" \in DOMAIN v
       THEN Obj([k \in {j \in DOMAIN v.obj : v.obj[j] # Undefined} |-> JsonValue(v.obj[k])])
       ELSE v

\* JSON.stringify(v): a string, told apart from the value it encodes
JSONstringify(v) == [json |-> JsonValue(v)]

\* JSON.parse(text), what the receiver of a request body does
JSONparse(text) == text.json

\* new CruxSDKError(message, 'custom', details)
CruxSDKError(message) == [name |-> "CruxSDKError", type |-> "custom", message |-> message]

Rejected(err) == [settled |-> "rejected", error |-> err]
Resolved == [settled |-> "resolved"]

\* arguments callers pass to cruxCustom
Categories == {Str("purchase"), Str(""), Num("7")}
Payloads ==
  {Obj([amount |-> Num("9.99")]),
   Obj([amount |-> Num("9.99"), coupon |-> Undefined]),
   Obj([amount |-> NaN]),
   JsNull, Undefined, Str("amount=9.99")}
Endpoints == {Str("https://c/e"), Str("")}

\* initCustomEvents(debug, appId, endpoint, useBrowserMode); browserMode is
\* Undefined when the parameter is left out
InitCustomEventsState(endpoint, browserMode) ==
  /\ isInitialized' = TRUE
  /\ browserModeEnabled' = (IF browserMode # Undefined THEN browserMode.bool ELSE inBrowser)
  /\ customEventsEndpoint' = (IF Falsy(endpoint) THEN customEventsEndpoint ELSE endpoint.str)

InitCustomEvents(endpoint, browserMode) ==
  /\ InitCustomEventsState(endpoint, browserMode)
  /\ UNCHANGED <<inBrowser, customCalls, pendingCustom, customResults, transportVars>>
  /\ UNCHANGED <<pageVars, gateVars, clickVars, libVars, sdkVars>>

\* setCustomEventsEndpoint(endpoint)
SetCustomEventsEndpoint(endpoint) ==
  /\ customEventsEndpoint' = (IF Falsy(endpoint) \/ TypeOf(endpoint) # "string"
                              THEN customEventsEndpoint ELSE endpoint.str)
  /\ UNCHANGED <<isInitialized, browserModeEnabled, inBrowser, customCalls, pendingCustom,
                 customResults, transportVars>>
  /\ UNCHANGED <<pageVars, gateVars, clickVars, libVars, sdkVars>>

\* the two validations at the head of cruxCustom: the message of the error
\* thrown, or "" when both pass
ValidationError(category, data) ==
  IF Falsy(category) \/ TypeOf(category) # "string" THEN "Category must be a non-empty string"
  ELSE IF Falsy(data) \/ TypeOf(data) # "object" THEN "Data must be an object"
  ELSE ""

\* (mutant: the auto-initialisation runs before the validations)
CustomValidated_InitFirst(category, data) ==
  /\ IF isInitialized THEN UNCHANGED customStateVars
     ELSE InitCustomEventsState(Undefined, Undefined)
  /\ customResults' = Append(customResults,
                             Rejected(CruxSDKError(ValidationError(category, data))))
  /\ UNCHANGED <<pendingCustom, transportVars>>

\* cruxCustom when a validation fails: throw err, i.e. the promise returned is
\* rejected with err
CustomValidated(category, data) ==
  /\ customResults' = Append(customResults,
                             Rejected(CruxSDKError(ValidationError(category, data))))
  /\ UNCHANGED <<customStateVars, pendingCustom, transportVars>>

\* const customEventData = { category, data }
CustomEventData(category, data) == Obj([category |-> category, data |-> data])

\* sendToCustomEndpoint up to its await: fetch(customEventsEndpoint, {method, headers, body})
FetchCall(endpoint, eventData) ==
  [url |-> endpoint, method |-> "POST", body |-> JSONstringify(eventData)]

\* trackStructEvent({ category, action: 'custom', property: JSON.stringify(data) })
StructEvent(category, data) ==
  Obj([category |-> category, action |-> Str("custom"), property |-> JSONstringify(data)])

\* cruxCustom(category, data), from the call to its first await
CruxCustom(category, data) ==
  /\ customCalls < MaxCustomCalls
  /\ customCalls' = customCalls + 1
  /\ IF ValidationError(category, data) # ""
     THEN CustomValidated(category, data)
     ELSE /\ IF isInitialized THEN UNCHANGED customStateVars
             ELSE InitCustomEventsState(Undefined, Undefined)
          /\ customResults' = Append(customResults, NotSettled)
          /\ IF browserModeEnabled'
             THEN \* await import('@snowplow/browser-tracker')
                  /\ pendingCustom' = pendingCustom \cup
                       {[call |-> customCalls', at |-> "import",
                         category |-> category, data |-> data]}
                  /\ UNCHANGED transportVars
             ELSE \* await sendToCustomEndpoint(customEventData)
                  /\ pendingCustom' = pendingCustom \cup
                       {[call |-> customCalls', at |-> "fetch",
                         category |-> category, data |-> data]}
                  /\ fetchCalls' = Append(fetchCalls,
                                          FetchCall(customEventsEndpoint',
                                                    CustomEventData(category, data)))
                  /\ UNCHANGED structEvents
  /\ UNCHANGED inBrowser
  /\ UNCHANGED <<pageVars, gateVars, clickVars, libVars, sdkVars>>

\* the promise of call p.call is settled
Settle(p, result) == customResults' = [customResults EXCEPT ![p.call] = result]

\* the continuation after the import: trackStructEvent is called; when the
\* import or the call fails, the catch block calls sendToCustomEndpoint
ImportSettled(p, snowplowOk) ==
  /\ p.at = "import"
  /\ IF snowplowOk
     THEN /\ structEvents' = Append(structEvents, StructEvent(p.category, p.data))
          /\ pendingCustom' = pendingCustom \ {p}
          /\ Settle(p, Resolved)
          /\ UNCHANGED fetchCalls
     ELSE /\ fetchCalls' = Append(fetchCalls,
                                  FetchCall(customEventsEndpoint,
                                            CustomEventData(p.category, p.data)))
          /\ pendingCustom' = (pendingCustom \ {p}) \cup {[p EXCEPT !.at = "fetch"]}
          /\ UNCHANGED <<structEvents, customResults>>
  /\ UNCHANGED <<customStateVars, inBrowser, customCalls>>
  /\ UNCHANGED <<pageVars, gateVars, clickVars, libVars, sdkVars>>

\* (mutant: the response status is not looked at)
FetchSettled_IgnoresStatus(p, responseOk) ==
  /\ p.at = "fetch"
  /\ pendingCustom' = pendingCustom \ {p}
  /\ Settle(p, Resolved)
  /\ UNCHANGED <<customStateVars, inBrowser, customCalls, transportVars>>
  /\ UNCHANGED <<pageVars, gateVars, clickVars, libVars, sdkVars>>

\* the continuation after the fetch: a failed request or a response that is
\* not ok is thrown, and cruxCustom wraps it in a CruxSDKError
FetchSettled(p, responseOk) ==
  /\ p.at = "fetch"
  /\ pendingCustom' = pendingCustom \ {p}
  /\ Settle(p, IF responseOk THEN Resolved
               ELSE Rejected(CruxSDKError("Error sending custom event")))
  /\ UNCHANGED <<customStateVars, inBrowser, customCalls, transportVars>>
  /\ UNCHANGED <<pageVars, gateVars, clickVars, libVars, sdkVars>>

BrowserModes == {Undefined, [bool |-> TRUE], [bool |-> FALSE]}

CustomInit ==
  /\ revision = "autoCapture"
  /\ GateLoaded
  /\ PageLoaded
  /\ ClickLoaded
  /\ LibIdle
  /\ SdkLoaded
  /\ isInitialized = FALSE
  /\ customEventsEndpoint = DefaultEndpoint
  /\ browserModeEnabled = FALSE
  /\ inBrowser \in BOOLEAN
  /\ customCalls = 0
  /\ pendingCustom = {}
  /\ customResults = <<>>
  /\ structEvents = <<>>
  /\ fetchCalls = <<>>
  /\ readyState = "complete"

CustomNext ==
  \/ \E endpoint \in Endpoints \cup {Undefined}, browserMode \in BrowserModes :
       InitCustomEvents(endpoint, browserMode)
  \/ \E endpoint \in Endpoints : SetCustomEventsEndpoint(endpoint)
  \/ \E category \in Categories, data \in Payloads : CruxCustom(category, data)
  \/ \E p \in pendingCustom, snowplowOk \in BOOLEAN : ImportSettled(p, snowplowOk)
  \/ \E p \in pendingCustom, responseOk \in BOOLEAN : FetchSettled(p, responseOk)

SpecCustom == CustomInit /\ [][CustomNext]_vars

\* ------------------------------------------------------- SDK entry module
\* Part 6: initCruxstack and stopCruxstack of src/unnamed/part_001 (an async
\* function, modelled in the segments between its awaits, and a function), in a
\* browser, with initializeAutocapture of the autoCapture module
\* (src/unnamed/part_004, lines 25-42) and the two trackers.  The dispatcher
\* both trackers are given is processAndSendEvent: a record handed to it is
\* processed by the gate before anything else happens.

\* the options a caller passes to cruxstack.init (appId, userId and debugLog
\* do not influence what is started)
SdkOptions ==
  {<<>>, [autoCapture |-> TRUE], [autoCapture |-> FALSE], [pageViews |-> TRUE]}

\* options.autoCapture !== false
AutoCaptureOn(options) == ~(Has(options, "autoCapture") /\ options.autoCapture = FALSE)

\* records handed to processAndSendEvent that it has not processed yet
Undelivered == submitted < Len(dispatched) + Len(clickDispatched)

\* no handler of the SDK is in the middle of its run
SdkIdle == sdkOutcome # "running" /\ ~Undelivered

\* no call of the SDK is under way
SdkReady == SdkIdle /\ sdkPending = <<>>

\* the session explored may still dispatch a record
SdkOpen == SdkReady /\ Len(dispatched) + Len(clickDispatched) < MaxSdkRecords

\* the sequence without its i-th element
Without(q, i) == SubSeq(q, 1, i - 1) \o SubSeq(q, i + 1, Len(q))

\* initCruxstack(options) up to its first await, 'await initEmitter(...)'
InitCruxstack(options) ==
  /\ SdkIdle
  /\ Len(sdkPending) < MaxPendingInits
  /\ IF sdkInitialized
     THEN /\ sdkOutcome' = "skipped"
          /\ UNCHANGED <<sdkInitialized, sdkConfig, sdkPending>>
     ELSE /\ sdkInitialized' = TRUE
          /\ sdkConfig' = options
          /\ sdkPending' = Append(sdkPending, options)
          /\ sdkOutcome' = "awaiting"
  /\ UNCHANGED sdkIsEnabled
  /\ UNCHANGED <<pageVars, gateVars, clickVars, libVars, customVars>>

\* the i-th suspended initCruxstack call resumes when its initEmitter promise
\* settles (emitterOk: it is fulfilled), and runs up to the initPageTracking
\* call of initializeAutocapture; options is the parameter of that call
InitCruxstackEmitter(i, emitterOk) ==
  /\ SdkIdle
  /\ i \in 1..Len(sdkPending)
  /\ routeHooks < MaxStarts
  /\ sdkPending' = Without(sdkPending, i)
  /\ UNCHANGED <<sdkInitialized, sdkConfig>>
  /\ LET options == sdkPending[i]
     IN IF ~emitterOk
        THEN /\ sdkOutcome' = "failed"
             /\ UNCHANGED sdkIsEnabled
             /\ UNCHANGED <<pageVars, gateVars, clickVars, customVars>>
        ELSE /\ sdkIsEnabled' = AutoCaptureOn(options)
             /\ IF AutoCaptureOn(options)
                THEN \* initializeAutocapture(options, isEnabled, debug)
                     /\ gateConfig' = Merge(Defaults, options)
                     /\ isEnabled' = TRUE
                     /\ UNCHANGED <<revision, eventCount, submitted, sinkCalls,
                                    sinkReceived, sinkIds, outcome>>
                     /\ clickEventDispatcher' = Dispatcher
                     /\ eventDispatcher' = Dispatcher
                     /\ InitClickTrackingCall(Has(options, "clicks"))
                     /\ UNCHANGED <<clickDispatched, clickOutcome>>
                     /\ UNCHANGED <<isActive, config, captureVars, installedVars,
                                    browserVars, historyVars>>
                     /\ UNCHANGED customVars
                     /\ sdkOutcome' = "running"
                ELSE /\ InitCustomEventsState(Undefined, Undefined)
                     /\ UNCHANGED <<inBrowser, customCalls, pendingCustom,
                                    customResults, transportVars>>
                     /\ UNCHANGED <<pageVars, gateVars, clickVars>>
                     /\ sdkOutcome' = "complete"
  /\ UNCHANGED libVars

\* the rest of the same call: initPageTracking(config), then
\* initCustomEvents(debug, options.appId)
InitCruxstackResume ==
  /\ sdkOutcome = "running"
  /\ InitPageTrackingCall(Has(gateConfig, "pageViews") /\ gateConfig.pageViews)
  /\ HistoryUpdate("initPageTracking")
  /\ InitCustomEventsState(Undefined, Undefined)
  /\ UNCHANGED <<inBrowser, customCalls, pendingCustom, customResults, transportVars>>
  /\ sdkOutcome' = "complete"
  /\ UNCHANGED <<sdkInitialized, sdkIsEnabled, sdkConfig, sdkPending>>
  /\ UNCHANGED <<gateVars, clickVars, libVars>>

\* stopCruxstack()
StopCruxstack ==
  /\ SdkIdle
  /\ IF ~sdkInitialized
     THEN /\ sdkOutcome' = "skipped"
          /\ UNCHANGED <<sdkInitialized, sdkIsEnabled, sdkConfig>>
          /\ UNCHANGED <<pageVars, clickVars>>
     ELSE /\ sdkIsEnabled' = FALSE
          /\ StopClickTrackingCall
          /\ UNCHANGED <<clickDispatched, clickOutcome>>
          /\ StopPageTrackingCall
          /\ HistoryUpdate("stopPageTracking")
          /\ sdkInitialized' = FALSE
          /\ sdkOutcome' = "stopped"
          /\ UNCHANGED sdkConfig
  /\ UNCHANGED <<gateVars, libVars, customVars, sdkPending>>

\* processAndSendEvent, called by the tracker with the record it dispatched
Deliver(draw, sendOk, rand) ==
  /\ Undelivered
  /\ Submit(draw, sendOk, rand)

\* the target clicked in the SDK sessions explored
SdkTargets == {[tagName |-> "BUTTON", type |-> "submit"]}

\* the URL the application navigates to in them
SdkUrls == Urls \ {LandingUrl}

SdkInit ==
  /\ revision = "autoCapture"
  /\ GateLoaded
  /\ PageLoaded
  /\ ClickLoaded
  /\ LibIdle
  /\ CustomLoaded
  /\ SdkLoaded

SdkNext ==
  \/ SdkOpen /\ \E options \in SdkOptions : InitCruxstack(options)
  \/ \E emitterOk \in BOOLEAN : InitCruxstackEmitter(1, emitterOk)
  \/ InitCruxstackResume
  \/ SdkReady /\ StopCruxstack
  \/ Deliver(DefaultSamplingRate, TRUE, 1)
  \/ SdkOpen /\ \E t \in SdkTargets : Click(t, TRUE)
  \/ SdkReady /\ \E u \in SdkUrls : PushState(u)
  \/ SdkReady /\ LoadEvent
  \/ SdkReady /\ Tick
  \/ SdkReady /\ FireRelease
  \/ SdkOpen /\ FireRouteCheck
  \/ SdkOpen /\ FireInitial

SpecSdk == SdkInit /\ [][SdkNext]_vars

\* the lifecycle calls alone, issued at any moment the event loop is free:
\* also while an initCruxstack call is suspended at its await
LifecycleOptions == {<<>>, [autoCapture |-> FALSE], [pageViews |-> TRUE]}

LifecycleNext ==
  \/ \E options \in LifecycleOptions : InitCruxstack(options)
  \/ \E i \in 1..MaxPendingInits, emitterOk \in BOOLEAN : InitCruxstackEmitter(i, emitterOk)
  \/ InitCruxstackResume
  \/ StopCruxstack
  \/ Deliver(DefaultSamplingRate, TRUE, 1)
  \/ SdkIdle /\ LoadEvent
  \/ SdkIdle /\ Tick
  \/ SdkIdle /\ FireRelease
  \/ SdkIdle /\ FireInitial

SpecLifecycle == SdkInit /\ [][LifecycleNext]_vars

\* ---------------------------------------------------- element description
\* Part 7: getElementInfo and isSensitiveInput of src/src/utils.ts, applied to
\* one element.  Strings are TLC strings; indexOf, toLowerCase and substring
\* are computed character by character.

InputValueLimit == 50        \* element.value.substring(0, 50)

\* String.prototype.toLowerCase, letter by letter
LowerLetters ==
  "A" :> "a" @@ "B" :> "b" @@ "C" :> "c" @@ "D" :> "d" @@ "E" :> "e" @@ "F" :> "f" @@
  "G" :> "g" @@ "H" :> "h" @@ "I" :> "i" @@ "J" :> "j" @@ "K" :> "k" @@ "L" :> "l" @@
  "M" :> "m" @@ "N" :> "n" @@ "O" :> "o" @@ "P" :> "p" @@ "Q" :> "q" @@ "R" :> "r" @@
  "S" :> "s" @@ "T" :> "t" @@ "U" :> "u" @@ "V" :> "v" @@ "W" :> "w" @@ "X" :> "x" @@
  "Y" :> "y" @@ "Z" :> "z"

RECURSIVE LowerCase(_)
LowerCase(str) ==
  IF Len(str) = 0 THEN ""
  ELSE LET c == SubSeq(str, 1, 1)
       IN (IF c \in DOMAIN LowerLetters THEN LowerLetters[c] ELSE c)
            \o LowerCase(SubSeq(str, 2, Len(str)))

\* str.indexOf(term) >= 0
Contains(str, term) ==
  \E i \in 1..(Len(str) - Len(term) + 1) : SubSeq(str, i, i + Len(term) - 1) = term

\* str.substring(0, n)
Substring0(str, n) == SubSeq(str, 1, IF Len(str) < n THEN Len(str) ELSE n)

sensitiveTypes == {"password", "email", "tel", "ssn", "credit-card"}
sensitiveNames == {"password", "email", "phone", "ssn", "credit", "card", "cvv", "cvc"}

\* (mutant: the type of the input is not looked at)
isSensitiveInput_NamesOnly(input) ==
  \/ input.name # "" /\ \E s \in sensitiveNames : Contains(LowerCase(input.name), s)
  \/ input.id # "" /\ \E s \in sensitiveNames : Contains(LowerCase(input.id), s)

\* isSensitiveInput(input)
isSensitiveInput(input) ==
  \/ input.type \in sensitiveTypes
  \/ input.name # "" /\ \E s \in sensitiveNames : Contains(LowerCase(input.name), s)
  \/ input.id # "" /\ \E s \in sensitiveNames : Contains(LowerCase(input.id), s)

\* getElementInfo(element): the fields that depend on what kind of element it
\* is (className, textContent, dataAttributes and position are left out)
getElementInfo(element) ==
  Merge(Merge([tagName |-> LowerCase(element.tagName)],
              IF element.id # "" THEN [id |-> element.id] ELSE <<>>),
        IF element.tagName = "A" THEN [href |-> element.href]
        ELSE IF element.tagName = "FORM" THEN [formAction |-> element.action]
        ELSE IF element.tagName = "INPUT"
             THEN Merge([inputType |-> element.type],
                        IF ~isSensitiveInput(element)
                        THEN [inputValue |-> Substring0(element.value, InputValueLimit)]
                        ELSE <<>>)
             ELSE <<>>)

RECURSIVE Repeat(_, _)
Repeat(str, n) == IF n = 0 THEN "" ELSE str \o Repeat(str, n - 1)

\* the elements described: inputs of several types, names, ids and values of
\* every length up to MaxValueLen, an anchor, a form and a div
InputTypes == {"text", "password", "email", "tel", "checkbox"}
InputNames == {"", "q", "userPassword", "Email", "phone_home", "tel", "CardNo", "SSN"}
InputIds == {"", "search", "credit-input", "CVV"}
Elements ==
  {[tagName |-> "INPUT", type |-> t, name |-> n, id |-> i, value |-> Repeat("4", k)] :
     t \in InputTypes, n \in InputNames, i \in InputIds, k \in {0, 1} \cup (MaxValueLen - 3)..MaxValueLen}
  \cup {[tagName |-> "A", id |-> i, href |-> "https://h/foo"] : i \in InputIds}
  \cup {[tagName |-> "FORM", id |-> i, action |-> "https://h/pay"] : i \in InputIds}
  \cup {[tagName |-> "DIV", id |-> i] : i \in InputIds}

\* one call of getElementInfo(arg)
GetElementInfo ==
  /\ ret = NotCalled
  /\ ret' = getElementInfo(arg)
  /\ UNCHANGED <<arg, debounceVars, pageVars, gateVars, clickVars, customVars, sdkVars>>

ElementInit ==
  /\ revision = "autoCapture"
  /\ GateLoaded
  /\ PageLoaded
  /\ ClickLoaded
  /\ CustomLoaded
  /\ SdkLoaded
  /\ readyState = "complete"
  /\ arg \in Elements
  /\ ret = NotCalled
  /\ DebounceIdle

ElementNext == GetElementInfo

SpecElement == ElementInit /\ [][ElementNext]_vars

\* ------------------------------------------------------------ SafeBrowser
\* Part 8: the SafeBrowser accessors, in their two revisions:
\* src/src/common/environment.ts (isBrowser() tests with fallbacks) and
\* src/unnamed/part_000 (assertBrowserEnv() at the head of each accessor).

Returned(v) == [returned |-> v]
Thrown(e) == [thrown |-> e]

\* the message of the Error assertBrowserEnv() throws
BrowserEnvRequired == "This Cruxstack SDK can only be used in a browser environment."

SnapshotAccessors ==
  {"getLocation", "getViewport", "getDocument", "getMetaTags", "getNavigator",
   "getPerformanceTiming", "getConnection", "getTimezone"}
ListenerAccessors ==
  {"addEventListener", "removeEventListener", "addWindowEventListener",
   "removeWindowEventListener"}
Accessors ==
  SnapshotAccessors \cup ListenerAccessors
    \cup {"getHistory", "now", "supportsPageTracking", "supportsClickTracking",
          "supportsHistoryAPI"}

\* the environments a call is made in: browser is what isBrowser() returns;
\* timing and connection say whether performance.timing and
\* navigator.connection exist there
Environments ==
  {[browser |-> b, timing |-> b /\ t, connection |-> b /\ c] :
     b \in BOOLEAN, t \in BOOLEAN, c \in BOOLEAN}

\* what an accessor does once it has found itself in a browser (the same code
\* in both revisions); values are named after the browser object they read
InBrowser(accessor, env) ==
  CASE accessor = "getLocation" -> Returned("window.location")
    [] accessor = "getViewport" -> Returned([width |-> "window.innerWidth"])
    [] accessor = "getDocument" -> Returned([title |-> "document.title"])
    [] accessor = "getMetaTags" -> Returned([description |-> "meta[name=description]"])
    [] accessor = "getNavigator" -> Returned([userAgent |-> "navigator.userAgent"])
    [] accessor = "getPerformanceTiming" ->
         IF env.timing THEN Returned([navigationStart |-> "timing.navigationStart"])
         ELSE Thrown("TypeError")
    [] accessor = "getConnection" ->
         IF env.connection THEN Returned([effectiveType |-> "connection.effectiveType"])
         ELSE Returned("undefined")
    [] accessor = "getTimezone" -> Returned([timeZone |-> "Intl.DateTimeFormat"])
    [] accessor \in ListenerAccessors -> Returned("undefined")
    [] accessor = "getHistory" -> Returned("history")
    [] accessor = "now" -> Returned("Date.now()")
    [] OTHER -> Returned(TRUE)

\* SafeBrowser of common/environment.ts
SafeBrowserEnvironment(accessor, env) ==
  IF env.browser THEN InBrowser(accessor, env)
  ELSE CASE accessor = "getLocation" -> Returned([href |-> "http://localhost:3000"])
         [] accessor = "getViewport" -> Returned([width |-> 1920])
         [] accessor = "getDocument" -> Returned([title |-> "Node.js Application"])
         [] accessor = "getMetaTags" -> Returned(<<>>)
         [] accessor = "getNavigator" -> Returned([userAgent |-> "Node.js/18.0.0 (linux; x64)"])
         [] accessor = "getPerformanceTiming" -> Returned([navigationStart |-> "Date.now() - 1000"])
         [] accessor = "getConnection" -> Returned("undefined")
         [] accessor = "getTimezone" -> Returned([timeZone |-> "UTC"])
         [] accessor \in ListenerAccessors -> Returned("undefined")
         [] accessor = "getHistory" -> Returned([pushState |-> "() => {}"])
         [] accessor = "now" -> Returned("Date.now()")
         [] OTHER -> Returned(FALSE)

\* SafeBrowser of part_000
SafeBrowserAssert(accessor, env) ==
  IF accessor = "now" THEN Returned("Date.now()")
  ELSE IF accessor \in {"supportsPageTracking", "supportsClickTracking", "supportsHistoryAPI"}
       THEN Returned(TRUE)
       ELSE IF ~env.browser THEN Thrown(BrowserEnvRequired)
            ELSE InBrowser(accessor, env)

EnvRevisions == {"environment.ts", "part_000"}

\* one call SafeBrowser[arg.accessor]() of revision arg.revision in arg.env
CallSafeBrowser ==
  /\ ret = NotCalled
  /\ ret' = (IF arg.revision = "environment.ts"
             THEN SafeBrowserEnvironment(arg.accessor, arg.env)
             ELSE SafeBrowserAssert(arg.accessor, arg.env))
  /\ UNCHANGED <<arg, debounceVars, pageVars, gateVars, clickVars, customVars, sdkVars>>

SafeBrowserInit ==
  /\ revision = "autoCapture"
  /\ GateLoaded
  /\ PageLoaded
  /\ ClickLoaded
  /\ CustomLoaded
  /\ SdkLoaded
  /\ readyState = "complete"
  /\ arg \in [accessor : Accessors, env : Environments, revision : EnvRevisions]
  /\ ret = NotCalled
  /\ DebounceIdle

SafeBrowserNext == CallSafeBrowser

SpecSafeBrowser == SafeBrowserInit /\ [][SafeBrowserNext]_vars

\* ---------------------------------------------------------- selector path
\* Part 9: getElementPath of src/src/plugins/trackers/click-tracker.ts.  The
\* argument is the chain of elements from the target (first) up to the child
\* of document.body (last); each element carries its tag name, its id, its
\* class names (className.trim().split(/\s+/)) and sameTag, the number of
\* children of its parent that have its tag name, itself included.

\* parts.join(sep)
RECURSIVE Join(_, _)
Join(parts, sep) ==
  IF Len(parts) = 0 THEN ""
  ELSE IF Len(parts) = 1 THEN parts[1]
  ELSE parts[1] \o sep \o Join(Tail(parts), sep)

\* one turn of the loop: the selector of current
ElementSelector(current) ==
  LowerCase(current.tagName)
    \o (IF current.id # "" THEN "#" \o current.id
        ELSE IF Len(current.className) > 0 THEN "." \o Join(current.className, ".")
        ELSE "")

\* the loop of getElementPath: every element below document.body is visited and
\* its selector put in front of those of the elements visited before it
RECURSIVE ElementPathSegments(_)
ElementPathSegments(chain) ==
  IF Len(chain) = 0 THEN <<>>
  ELSE ElementPathSegments(Tail(chain)) \o <<ElementSelector(Head(chain))>>

\* getElementPath(element): the path array and the string returned
getElementPath(chain) ==
  [path |-> ElementPathSegments(chain), selector |-> Join(ElementPathSegments(chain), " > ")]

PathNodes ==
  [tagName : {"DIV", "BUTTON"}, id : {"", "buy"},
   className : {<<>>, <<"btn", "primary">>}, sameTag : {1, 2}]

RECURSIVE Chains(_)
Chains(n) ==
  IF n = 0 THEN {<<>>}
  ELSE Chains(n - 1) \cup {<<e>> \o c : e \in PathNodes, c \in {d \in Chains(n - 1) : Len(d) = n - 1}}

\* one call of getElementPath on the target arg[1]
GetElementPath ==
  /\ ret = NotCalled
  /\ ret' = getElementPath(arg)
  /\ UNCHANGED <<arg, debounceVars, pageVars, gateVars, clickVars, customVars, sdkVars>>

PathInit ==
  /\ revision = "autoCapture"
  /\ GateLoaded
  /\ PageLoaded
  /\ ClickLoaded
  /\ CustomLoaded
  /\ SdkLoaded
  /\ readyState = "complete"
  /\ arg \in Chains(MaxDepth) \ {<<>>}
  /\ ret = NotCalled
  /\ DebounceIdle

PathNext == GetElementPath

SpecPath == PathInit /\ [][PathNext]_vars

\* ===================================================== Page-View Observer claims
Last(s) == s[Len(s)]
NoRouteTimerPending == \A i \in 1..Len(timers) : timers[i].kind # "route"

\* C1: for one URL, with no URL change in between, at most one PAGE_VIEW record
\* is handed to the dispatcher, whatever capture invocations are made (manual
\* calls, route-change checks, repeated navigation signals, restarts).
C1_DuplicateSuppression == sentThisUrl <= 1

\* a record was dispatched for the current URL, the in-flight guard has been
\* released again, and the observer would otherwise accept a capture
C1_Witness ==
  /\ sentThisUrl = 1 /\ location = lastProcessedUrl
  /\ isActive /\ eventDispatcher # NoDispatcher /\ ~isProcessingPageView
  /\ routeHooks = 2

\* C2: after a history push to a new URL, made while the observer is active with a
\* dispatcher and the current URL captured, once the route-change checks of the
\* push have run exactly one PAGE_VIEW record was dispatched for the pushed URL,
\* with a non-null previousPageTimeSpent.
C2_RouteChangeScenario ==
  (scen /\ NoRouteTimerPending) =>
    /\ sentThisUrl = 1
    /\ Last(dispatched).routeInfo.toUrl = location
    /\ Last(dispatched).eventData.previousPageTimeSpent # Null

\* the debounce of a scenario push has elapsed
C2_Witness == scen /\ NoRouteTimerPending /\ Len(dispatched) >= 2

\* C3 (as claimed): every activating start with a dispatcher set hands exactly one
\* initial PAGE_VIEW record for the current location to the dispatcher, in the
\* start itself when the document is loaded and not before the load otherwise.
C3_InitialPageView ==
  [][(~isActive /\ isActive' /\ eventDispatcher # NoDispatcher) =>
       IF readyState = "complete"
       THEN /\ Len(dispatched') = Len(dispatched) + 1
            /\ Last(dispatched').routeInfo.toUrl = location
       ELSE dispatched' = dispatched]_vars

\* C4 (as claimed): the first PAGE_VIEW record of a session carries
\* previousPageTimeSpent = null.
C4_FirstRecordNullDwell ==
  dispatched # <<>> => dispatched[1].eventData.previousPageTimeSpent = Null

\* C5 (as claimed): an activating start leaves currentUrl = the location read at
\* start and currentPageStartTime = the time of start, so a record dispatched by
\* the start has fromUrl = the location at start.
C5_StateInitialisedAtStart ==
  [][(~isActive /\ isActive') =>
       /\ currentUrl' = location
       /\ currentPageStartTime' = now
       /\ Len(dispatched') > Len(dispatched) =>
            Last(dispatched').routeInfo.fromUrl = location]_vars

\* C6: initPageTracking on an active observer, or with pageViews falsy, changes no
\* observer state, installs no hook, listener or timer and dispatches nothing.
C6_IgnoredStart ==
  [][\A pv \in BOOLEAN :
       (InitPageTracking(pv) /\ (isActive \/ ~pv)) =>
         UNCHANGED <<observerVars, installedVars, dispatched>>]_vars

\* an active observer that has started once and dispatched: a further start
\* leaves exactly this state
C6_Witness == isActive /\ routeHooks = 1 /\ loadListeners = 1 /\ dispatched # <<>>

\* C7 (as claimed): the history hooks are installed exactly when the observer is
\* active, and at most once.
C7_HooksFollowActive == routeHooks = (IF isActive THEN 1 ELSE 0)

C9_StaleTimers ==
  [][(/\ ~isActive
      /\ \/ FireRouteCheck \/ FireInitial \/ FireRelease
         \/ \E u \in Urls : PushState(u) \/ ReplaceState(u) \/ PopState(u)) =>
       UNCHANGED <<dispatched, currentUrl, currentPageStartTime, previousPageData,
                   lastProcessedUrl>>]_vars

\* a route-change check set before a stop is due while the observer is stopped,
\* the URL has changed, and only the active flag keeps the capture from running
C9_Witness ==
  /\ ~isActive /\ routeHooks >= 1 /\ eventDispatcher # NoDispatcher
  /\ TimerDue("route") /\ RouteChanged /\ ~CaptureDuplicate

\* pending callbacks that clear the in-flight guard
ReleasesPending == Cardinality({i \in 1..Len(timers) : timers[i].kind = "release"})

\* a step in which a capture is accepted: the guard becomes set
CaptureAccepted == ~isProcessingPageView /\ isProcessingPageView'

\* C28: exactly one release is pending while the guard is set and none otherwise
\* (a skipped capture schedules no release); the guard is cleared only by the
\* release of the capture that set it, once its delay has passed; no step taken
\* while the guard is set dispatches a record.
C28_GuardOwnership ==
  [][/\ ReleasesPending' = (IF isProcessingPageView' THEN 1 ELSE 0)
     /\ (isProcessingPageView /\ ~isProcessingPageView') =>
          /\ TimerDue("release")
          /\ Head(timers).due = currentPageStartTime + ProcessingResetDelay
     /\ isProcessingPageView => dispatched' = dispatched]_vars

\* the location has changed while the guard of an earlier capture is held, and
\* only the guard keeps a capture call from dispatching the new URL
C28_Witness ==
  /\ isProcessingPageView /\ ReleasesPending = 1
  /\ location # currentUrl /\ location # lastProcessedUrl
  /\ isActive /\ eventDispatcher # NoDispatcher /\ dispatched # <<>>

\* C29: whenever the guard is set its release is pending and due no later than
\* the release delay after the capture, also when record assembly threw and
\* also when the observer was stopped since; time does not pass that instant
\* with the guard still set.
C29_GuardReleased ==
  isProcessingPageView =>
    /\ \E i \in 1..Len(timers) :
         /\ timers[i].kind = "release"
         /\ timers[i].due = currentPageStartTime + ProcessingResetDelay
    /\ now <= currentPageStartTime + ProcessingResetDelay

\* a capture threw during record assembly, the observer was stopped, and the
\* guard has been released since
C29_Witness ==
  /\ ~snapshotApis /\ ~isActive /\ ~isProcessingPageView /\ ReleasesPending = 0
  /\ currentUrl = location /\ lastProcessedUrl # location
  /\ now >= currentPageStartTime + ProcessingResetDelay

\* C30: an accepted capture that completes dispatches a record with fromUrl = the
\* previous currentUrl and toUrl = the URL read, and leaves currentUrl =
\* lastProcessedUrl = toUrl and currentPageStartTime = the capture time; records
\* are dispatched only by accepted captures; a capture call that is skipped
\* leaves currentUrl, lastProcessedUrl, currentPageStartTime and the records alone.
C30_StateAdvance ==
  [][/\ (CaptureAccepted /\ dispatched' # dispatched) =>
          /\ Len(dispatched') = Len(dispatched) + 1
          /\ Last(dispatched').routeInfo.fromUrl = currentUrl
          /\ Last(dispatched').routeInfo.toUrl = location
          /\ currentUrl' = location
          /\ lastProcessedUrl' = location
          /\ currentPageStartTime' = now
     /\ dispatched' # dispatched => CaptureAccepted
     /\ ((ManualPageView \/ FireInitial \/ FireRouteCheck) /\ ~CaptureAccepted) =>
          UNCHANGED <<currentUrl, lastProcessedUrl, currentPageStartTime, dispatched>>]_vars

\* a route change was captured: the last record leads from one URL to another
C30_Witness ==
  /\ Len(dispatched) >= 2
  /\ Last(dispatched).routeInfo.fromUrl \in Urls
  /\ Last(dispatched).routeInfo.fromUrl # Last(dispatched).routeInfo.toUrl
  /\ currentUrl = lastProcessedUrl /\ currentUrl = Last(dispatched).routeInfo.toUrl

\* ============================================================ Dispatch Gate claims
\* C10 (as claimed, for a ceiling of at least one): in every state of a session
\* the Sink has received at most the configured maxEventsPerSession records.
C10_SessionCeiling ==
  (Has(gateConfig, "maxEventsPerSession") /\ gateConfig.maxEventsPerSession >= 1) =>
    sinkReceived <= gateConfig.maxEventsPerSession

\* C11 (as claimed): with maxEventsPerSession configured as 0 no submitted record
\* reaches the Sink.
C11_ZeroCeiling ==
  (Has(gateConfig, "maxEventsPerSession") /\ gateConfig.maxEventsPerSession = 0) =>
    sinkReceived = 0

\* the sampling decision the specification states, in percent
ClaimedAccept(rate, draw) ==
  IF rate >= 100 THEN TRUE ELSE IF rate <= 0 THEN FALSE ELSE draw <= rate

\* C12 (as claimed): a record submitted to an enabled gate below its ceiling is
\* accepted exactly when the rate is >= 1, or the rate is > 0 and the draw is <=
\* the rate; a rate <= 0 rejects every record.
C12_SamplingDecision ==
  [][\A draw \in Draws, sendOk \in BOOLEAN, rand \in Rands :
       (/\ Submit(draw, sendOk, rand)
        /\ isEnabled
        /\ ~isEventLimitReached(eventCount, gateConfig)) =>
         ((outcome' # "dropped") <=> ClaimedAccept(gateConfig.samplingRate, draw))]_vars

\* C13 (as claimed): in the builds that keep an event counter, the counter equals
\* the number of successful handoffs to the Sink since the session was initialised.
C13_CounterCountsHandoffs ==
  revision \in {"web", "legacy"} => eventCount = sinkReceived

\* C14: a submission (a step that counts one more submitted record) whose Sink
\* send throws returns normally to the observer (the
\* exception is caught in the gate), leaves the observer's state unchanged and
\* calls the Sink exactly once for the record.
C14_TransportFailureSwallowed ==
  [][(/\ submitted' = submitted + 1
      /\ sinkCalls' # sinkCalls
      /\ sinkReceived' = sinkReceived) =>
       /\ outcome' = "caught"
       /\ sinkCalls' = sinkCalls + 1
       /\ Len(sinkIds') = Len(sinkIds) + 1
       /\ UNCHANGED <<pageVars, clickVars>>]_vars

\* a send has failed in this session and the gate has returned from it
C14_Witness == outcome = "caught" /\ sinkReceived < sinkCalls

\* C15: a record the gate rejects (disabled, sampled out, ceiling reached) gets no
\* id, does not reach the Sink and leaves the counter and the gate's state unchanged.
C15_RejectedDroppedWhole ==
  [][(submitted' = submitted + 1 /\ outcome' = "dropped") =>
       UNCHANGED <<isEnabled, gateConfig, eventCount, sinkCalls, sinkReceived,
                   sinkIds>>]_vars

\* an enabled gate has dropped a record after handing earlier ones to the Sink
C15_Witness == outcome = "dropped" /\ isEnabled /\ sinkCalls >= 1

\* C16 (as claimed): the ids of the records handed to the Sink in one session are
\* pairwise distinct.
C16_UniqueIds ==
  \A i, j \in 1..Len(sinkIds) : i # j => sinkIds[i] # sinkIds[j]

\* ======================================================== Click Observer claims
\* the click filter the specification states
ClaimedButton(t) ==
  \/ t.tagName = "BUTTON"
  \/ t.tagName = "INPUT" /\ Has(t, "type") /\ t.type \in {"button", "submit", "reset"}
  \/ Has(t, "role") /\ t.role = "button"

\* C17 (as claimed): with the observer active and a dispatcher set, a click on a
\* button, an input of type button/submit/reset or an element with role="button"
\* hands exactly one CLICK record to the dispatcher, and a click on any other
\* element hands none.
C17_ClickFilter ==
  [][\A t \in Targets :
       (/\ Click(t, TRUE)
        /\ Has(t, "tagName")
        /\ clickIsActive /\ clickEventDispatcher # NoDispatcher) =>
         IF ClaimedButton(t)
         THEN /\ Len(clickDispatched') = Len(clickDispatched) + 1
              /\ Last(clickDispatched').type = "CLICK"
              /\ Last(clickDispatched').elementInfo.tagName = toLowerCase(t.tagName)
         ELSE clickDispatched' = clickDispatched]_vars

\* C18 (as claimed): initClickTracking on an active observer, or with clicks
\* falsy, registers no listener and leaves the active flag unchanged.
C18_IgnoredClickStart ==
  [][\A clicks \in BOOLEAN :
       (InitClickTracking(clicks) /\ (clickIsActive \/ ~clicks)) =>
         UNCHANGED <<clickIsActive, clickListeners>>]_vars

\* C19: stopClickTracking on an active observer removes the listener, clears the
\* dispatcher and deactivates the observer; on an inactive observer it changes
\* nothing; while the observer is inactive no click hands a record to a dispatcher.
C19_ClickStop ==
  [][/\ StopClickTracking =>
          IF clickIsActive
          THEN /\ clickListeners' = 0
               /\ clickEventDispatcher' = NoDispatcher
               /\ ~clickIsActive'
               /\ clickDispatched' = clickDispatched
          ELSE UNCHANGED clickVars
     /\ (~clickIsActive /\ \E t \in Targets, captureOk \in BOOLEAN : Click(t, captureOk)) =>
          /\ clickOutcome' = "unheard"
          /\ clickDispatched' = clickDispatched]_vars

\* the observer was stopped after it had dispatched a click, and a click made
\* since then went unheard
C19_Witness ==
  /\ ~clickIsActive /\ clickListeners = 0 /\ clickEventDispatcher = NoDispatcher
  /\ clickDispatched # <<>> /\ clickOutcome = "unheard"

\* C20 (as claimed): no exception escapes the click handler, whatever the target.
C20_ClickHandlerNeverThrows == clickOutcome # "threw"

\* ===================================================== dwell formatting claims
\* the whole numbers of seconds a dwell of ms milliseconds may be shown as
ShownSeconds(ms) == {n \in 0..(ms \div 1000 + 1) : n * 1000 - ms < 1000 /\ ms - n * 1000 < 1000}

\* C21 (as claimed): for every dwell time, whole seconds or not, timePeriod is
\* short up to 60 s, medium above 60 s and up to 300 s, long above 300 s; the
\* text is "<N> seconds" for a dwell under a minute and otherwise "<M> minutes",
\* followed by " <S> seconds" exactly when S > 0.
C21_DwellFormatting ==
  ret # NotCalled =>
    /\ ret.timePeriod = (IF arg <= 60000 THEN "short"
                         ELSE IF arg <= 300000 THEN "medium" ELSE "long")
    /\ \E n \in ShownSeconds(arg) :
         ret.timeSpentFormatted =
           (IF arg < 60000 THEN ToString(n) \o " seconds"
            ELSE IF n % 60 > 0
                 THEN ToString(n \div 60) \o " minutes " \o ToString(n % 60) \o " seconds"
                 ELSE ToString(n \div 60) \o " minutes")

\* ===================================================== Custom Events claims
\* a category that is empty or not a string, or a payload that is not an object
Malformed(category, data) ==
  category = Str("") \/ "str" \notin DOMAIN category \/ "obj" \notin DOMAIN data

\* C22: a call of cruxCustom with a malformed category or payload is rejected
\* by the call itself (the promise it returns is already rejected, nothing is
\* left pending) with a CruxSDKError of type 'custom'; no transport is called
\* and the initialised flag, the endpoint and the mode are unchanged.
C22_ValidationRejects ==
  [][(\E category \in Categories, data \in Payloads :
        CruxCustom(category, data) /\ Malformed(category, data)) =>
       /\ Len(customResults') = Len(customResults) + 1
       /\ Last(customResults').settled = "rejected"
       /\ Last(customResults').error.name = "CruxSDKError"
       /\ Last(customResults').error.type = "custom"
       /\ pendingCustom' = pendingCustom
       /\ structEvents' = structEvents /\ fetchCalls' = fetchCalls
       /\ isInitialized' = isInitialized
       /\ customEventsEndpoint' = customEventsEndpoint
       /\ browserModeEnabled' = browserModeEnabled]_vars

\* a malformed call was rejected before the plugin was initialised, and one
\* after a valid call had reached a transport
C22_Witness ==
  /\ Len(customResults) = 2
  /\ customResults[2].settled = "rejected"
  /\ customResults[2].error.message = "Data must be an object"
  /\ customResults[1] = Resolved
  /\ isInitialized /\ Len(fetchCalls) + Len(structEvents) = 1

\* the envelope's data carries each field of the payload with its value
Carries(envelope, payload) ==
  /\ "data" \in DOMAIN envelope.obj
  /\ \A k \in DOMAIN payload.obj : Get(envelope.obj.data, k) = payload.obj[k]

\* C23 (as claimed): a call of cruxCustom with a non-empty string category and
\* an object payload is not rejected, every envelope transmitted for it (the
\* struct event in browser mode, the request body in non-browser mode) has a
\* data object carrying each payload field with its original value, and the
\* call succeeds when the transport does.
C23_PayloadIntact ==
  [][/\ \A category \in Categories, data \in Payloads :
          (CruxCustom(category, data) /\ ~Malformed(category, data)) =>
            /\ Last(customResults') = NotSettled
            /\ fetchCalls' # fetchCalls =>
                 Carries(JSONparse(Last(fetchCalls').body), data)
     /\ \A p \in pendingCustom, ok \in BOOLEAN :
          ImportSettled(p, ok) =>
            /\ structEvents' # structEvents => Carries(Last(structEvents'), p.data)
            /\ fetchCalls' # fetchCalls =>
                 Carries(JSONparse(Last(fetchCalls').body), p.data)
     /\ \A p \in pendingCustom :
          FetchSettled(p, TRUE) => customResults'[p.call] = Resolved]_vars

\* ===================================================== SDK entry module claims
\* C24 (as claimed): once initCruxstack has completed with autoCapture true or
\* omitted, click tracking and page-view tracking are both active; once it has
\* completed with autoCapture false, neither is active and, until the SDK is
\* stopped, no tracker dispatches a record and the Sink is not called.
C24_AutoCaptureOption ==
  [][/\ (sdkOutcome' = "complete" /\ AutoCaptureOn(sdkConfig')) =>
          clickIsActive' /\ isActive'
     /\ (sdkOutcome' = "complete" /\ ~AutoCaptureOn(sdkConfig')) =>
          ~clickIsActive' /\ ~isActive'
     /\ (sdkOutcome = "complete" /\ ~AutoCaptureOn(sdkConfig) /\ sdkOutcome' = "complete") =>
          /\ sinkCalls' = sinkCalls
          /\ dispatched' = dispatched
          /\ clickDispatched' = clickDispatched]_vars

\* ===================================================== element description claims
\* the sensitive terms an attribute of the input matches
TypeTerms == {"password", "email", "tel", "ssn", "credit-card"}
NameTerms == {"password", "email", "phone", "ssn", "credit", "card", "cvv", "cvc"}
MatchesSensitiveTerm(e) ==
  \/ e.type \in TypeTerms
  \/ \E s \in NameTerms : Contains(LowerCase(e.name), s) \/ Contains(LowerCase(e.id), s)

C26_AccessorsFailFast ==
  (ret # NotCalled /\ arg.accessor \in SnapshotAccessors /\ ~arg.env.browser) =>
    "thrown" \in DOMAIN ret

\* ===================================================== selector path claims
\* the number of elements the path is to hold: up to the first element with an
\* id, or all of them when none has one
PathLength(chain) ==
  IF \E k \in 1..Len(chain) : chain[k].id # ""
  THEN CHOOSE k \in 1..Len(chain) :
         chain[k].id # "" /\ \A j \in 1..(k - 1) : chain[j].id = ""
  ELSE Len(chain)

\* str begins with prefix
StartsWith(str, prefix) ==
  Len(prefix) <= Len(str) /\ SubSeq(str, 1, Len(prefix)) = prefix

\* C27 (as claimed): the path holds the target and its ancestors up to the
\* first element with an id, whose tag#id is the leftmost segment, or up to the
\* child of document.body; a segment has a :nth-child(k) exactly when another
\* child of the same parent has the element's tag name.
C27_SelectorPath ==
  ret # NotCalled =>
    /\ Len(ret.path) = PathLength(arg)
    /\ arg[PathLength(arg)].id # "" =>
         StartsWith(ret.selector,
                    LowerCase(arg[PathLength(arg)].tagName) \o "#" \o arg[PathLength(arg)].id)
    /\ \A j \in 1..Len(ret.path) :
         Len(ret.path) + 1 - j \in 1..Len(arg) =>
           (Contains(ret.path[j], ":nth-child(") <=> arg[Len(ret.path) + 1 - j].sameTag > 1)

\* ======================================= Part 10: an uninterrupted observer session
\* The application sets the dispatcher, starts the observer once and never
\* stops it; the user navigates, the application may call the manual entry
\* points, time passes and the timers run.  Navigation is issued only while its
\* route-change check still falls inside the time explored.
StartedOnce == isActive /\ eventDispatcher # NoDispatcher

NavNext ==
  \/ eventDispatcher = NoDispatcher /\ SetPageEventDispatcher
  \/ eventDispatcher # NoDispatcher /\ ~isActive /\ InitPageTracking(TRUE)
  \/ StartedOnce /\ ManualPageView
  \/ StartedOnce /\ ManualPageTime
  \/ StartedOnce /\ now + RouteChangeDelay <= MaxTicks /\ \E u \in Urls : PushState(u)
  \/ StartedOnce /\ now + RouteChangeDelay <= MaxTicks /\ \E u \in Urls : ReplaceState(u)
  \/ StartedOnce /\ now + RouteChangeDelay <= MaxTicks /\ \E u \in Urls : PopState(u)
  \/ StartedOnce /\ LoadEvent
  \/ Tick
  \/ FireRelease
  \/ FireRouteCheck
  \/ FireInitial

\* the event loop: time passes and a timer that is due runs
EventLoopFair ==
  /\ WF_vars(Tick)
  /\ WF_vars(FireRelease)
  /\ WF_vars(FireRouteCheck)
  /\ WF_vars(FireInitial)

SpecNav == Init /\ [][NavNext]_vars /\ EventLoopFair

\* ============================== Part 11: the clock reads of one page-view capture
\* A capture reads Date.now() five times: for routeInfo.navigationTime, twice in
\* trackCurrentPageTime (timeSpent, then exitTime), in updatePageStateForNewPage
\* and for the record's timestamp.  Here the clock may advance between two
\* consecutive reads; r is the sequence of the five values read.
\* The first read is now, each later read is at most MaxSkew after the one
\* before it (d[i] is the advance before read i + 1), and the last read is
\* within the clock's bound.
ReadsFrom(d) ==
  <<now, now + d[1], now + d[1] + d[2], now + d[1] + d[2] + d[3],
    now + d[1] + d[2] + d[3] + d[4]>>

ClockReads ==
  {ReadsFrom(d) : d \in {e \in [1..4 -> 0..MaxSkew] :
                           now + e[1] + e[2] + e[3] + e[4] <= MaxTicks}}

\* trackCurrentPageTime(): t1 and t2 are its two clock reads
trackCurrentPageTime(t1, t2) ==
  [url |-> currentUrl, timeSpent |-> t1 - currentPageStartTime, exitTime |-> t2]

\* createPageViewEventWithRouteInfo(timeSpentData, routeInfo) of a capture whose
\* clock reads are r
PageViewEventAt(r) ==
  [type |-> "PAGE_VIEW", timestamp |-> r[5],
   routeInfo |-> [fromUrl |-> currentUrl, toUrl |-> location, navigationTime |-> r[1]],
   eventData |-> [pageUrl |-> location,
                  previousPageTimeSpent |->
                    calculateTimeSpent(trackCurrentPageTime(r[2], r[3]))]]

\* trackAutocapturePageView() with clock reads r; the guards read no clock
TrackAutocapturePageViewAt(active, pending, r) ==
  IF CaptureInactive(active) \/ CaptureDuplicate
  THEN /\ UNCHANGED captureVars
       /\ timers' = pending
       /\ now' = now
  ELSE /\ isProcessingPageView' = TRUE
       /\ previousPageData' = trackCurrentPageTime(r[2], r[3])
       /\ currentUrl' = NewPageUrl
       /\ currentPageStartTime' = r[4]
       /\ lastProcessedUrl' = location
       /\ dispatched' = Append(dispatched, PageViewEventAt(r))
       /\ now' = r[5]
       /\ timers' = SetTimeout(pending, [kind |-> "release",
                                         due |-> r[5] + ProcessingResetDelay])

\* trackAutocapturePageView() called by the application
ManualPageViewAt(r) ==
  /\ TrackAutocapturePageViewAt(isActive, timers, r)
  /\ UNCHANGED <<isActive, config, eventDispatcher, routeHooks, loadListeners,
                 location, readyState, snapshotApis>>
  /\ History("trackAutocapturePageView")

\* setTimeout(() => handleRouteChange(), 100)
FireRouteCheckAt(r) ==
  /\ TimerDue("route")
  /\ IF RouteChanged
     THEN TrackAutocapturePageViewAt(isActive, Tail(timers), r)
     ELSE UNCHANGED <<captureVars, now>> /\ timers' = Tail(timers)
  /\ UNCHANGED <<isActive, config, eventDispatcher, routeHooks, loadListeners,
                 location, readyState, snapshotApis>>
  /\ History("timer:route")

ClockNext ==
  \/ eventDispatcher = NoDispatcher /\ SetPageEventDispatcher
  \/ eventDispatcher # NoDispatcher /\ ~isActive /\ InitPageTracking(TRUE)
  \/ StopPageTracking
  \/ \E r \in ClockReads : ManualPageViewAt(r)
  \/ \E u \in Urls : PushState(u)
  \/ LoadEvent
  \/ Tick
  \/ FireRelease
  \/ \E r \in ClockReads : FireRouteCheckAt(r)
  \/ FireInitial

SpecClock == Init /\ [][ClockNext]_vars

\* ================================================= Part 12: debounce (src/src/utils.ts)
\* One debounced function, debounce(func, DebounceWait), called by the
\* application.  Its closure variable 'timeout' names the timer it set last;
\* clearTimeout(timeout) removes that timer from the queue when it is still
\* pending and does nothing when it has run.  Timers are punctual: a callback
\* that is due runs before any other event of that instant is handled.
DebounceArgs == {"a", "b"}

\* clearTimeout(timeout)
ClearTimeout(q) == SelectSeq(q, LAMBDA t : t.kind # "debounce")

\* setTimeout(() => func(...args), wait)
DebounceTimer(args) == [kind |-> "debounce", due |-> now + DebounceWait, args |-> args]

NoTimerDue == timers # <<>> => Head(timers).due > now

debounceRest == <<arg, ret, observerVars, routeHooks, loadListeners, location, readyState,
                  snapshotApis, dispatched, historyVars, gateVars, clickVars, customVars,
                  sdkVars>>

\* (mutant: the pending timer is not cleared)
Debounced_NoClear(args) ==
  /\ Len(debounceCalls) < MaxDebounceCalls
  /\ NoTimerDue
  /\ timers' = SetTimeout(timers, DebounceTimer(args))
  /\ debounceCalls' = Append(debounceCalls, [at |-> now, args |-> args])
  /\ UNCHANGED <<funcCalls, now, debounceRest>>

\* the function debounce returns, called with args
Debounced(args) ==
  /\ Len(debounceCalls) < MaxDebounceCalls
  /\ NoTimerDue
  /\ timers' = SetTimeout(ClearTimeout(timers), DebounceTimer(args))
  /\ debounceCalls' = Append(debounceCalls, [at |-> now, args |-> args])
  /\ UNCHANGED <<funcCalls, now, debounceRest>>

\* the timer callback: () => func(...args)
FireDebounce ==
  /\ TimerDue("debounce")
  /\ funcCalls' = Append(funcCalls, [at |-> now, args |-> Head(timers).args])
  /\ timers' = Tail(timers)
  /\ UNCHANGED <<debounceCalls, now, debounceRest>>

\* time passes (only when no timer is due)
DebounceTick ==
  /\ now < MaxDebounceTime
  /\ NoTimerDue
  /\ now' = now + 1
  /\ UNCHANGED <<debounceVars, timers, debounceRest>>

DebounceInit ==
  /\ Init
  /\ readyState = "complete"

DebounceNext ==
  \/ \E args \in DebounceArgs : Debounced(args)
  \/ FireDebounce
  \/ DebounceTick

SpecDebounce == DebounceInit /\ [][DebounceNext]_vars

\* =================================================== Page-View Observer, continued
\* a start that activates the observer on a loaded document, whose initial
\* capture gets past both guards and throws while the record is assembled
StartCaptureThrows ==
  /\ ~isActive /\ isActive'
  /\ readyState = "complete"
  /\ CaptureThrows(TRUE)

\* C31 (as claimed): a capture whose record assembly throws drops the event and
\* the exception stays inside the capture, so a start whose initial capture
\* fails still returns normally: the observer is active and its navigation
\* hooks are installed.
C31_EnrichmentFailureContained ==
  [][StartCaptureThrows =>
       /\ dispatched' = dispatched
       /\ isActive'
       /\ routeHooks' = routeHooks + 1]_vars

\* the user is back on a URL that was captured earlier (it is lastProcessedUrl),
\* having been elsewhere since: the location last changed to this URL from a
\* different one and no record was dispatched since that change
Revisited ==
  /\ isActive /\ eventDispatcher # NoDispatcher
  /\ location = lastProcessedUrl
  /\ sentThisUrl = 0

\* C32: the de-duplication suppresses a re-visit.  While the user is back on a
\* URL A equal to lastProcessedUrl after an intervening navigation elsewhere, no
\* step dispatches a record: every capture invoked for A (by the application,
\* by the load timer or by a route-change check) is skipped, also when no
\* capture is in flight, so no PAGE_VIEW is produced for the re-visit.
C32_RevisitSuppressed ==
  [][Revisited => dispatched' = dispatched]_vars

\* the re-visit has happened and is over: the user went from A elsewhere and
\* back, every route-change check of both navigations has fired, no capture is
\* in flight, and the only records are from before the user left A
C32_Witness ==
  /\ Revisited
  /\ ~isProcessingPageView /\ timers = <<>> /\ routeHooks >= 1
  /\ dispatched # <<>>
  /\ Last(dispatched).routeInfo.toUrl = location

\* the location is u, the observer has not made u its current page, and a
\* route-change check set by a navigation is still to run
NavigatedTo(u) ==
  /\ StartedOnce
  /\ location = u /\ currentUrl # u
  /\ ~NoRouteTimerPending

\* a record for u is the latest one handed to the dispatcher
CapturedLast(u) ==
  /\ dispatched # <<>>
  /\ Last(dispatched).routeInfo.toUrl = u

C34_RecordChain ==
  /\ \A i \in 2..Len(dispatched) :
       dispatched[i].routeInfo.fromUrl = dispatched[i - 1].routeInfo.toUrl
  /\ \A i \in 1..Len(dispatched) :
       dispatched[i].routeInfo.fromUrl # dispatched[i].routeInfo.toUrl

\* three records, the third leading back to the URL of the first, with a stop
\* and a restart of the observer in the session (two layers of hooks)
C34_Witness ==
  /\ Len(dispatched) >= 3
  /\ dispatched[3].routeInfo.toUrl = dispatched[1].routeInfo.toUrl
  /\ routeHooks = 2

\* the dwell summary of the i-th record
Dwell(i) == dispatched[i].eventData.previousPageTimeSpent

\* C35 (as claimed): every non-null dwell summary describes the page being
\* left and is consistent: previousUrl is the record's fromUrl, entryTime lies
\* within the capture that made that page current (for the first record: is the
\* module load time), and exitTime - entryTime = timeSpentMs >= 0, also when
\* the clock advances between the clock reads of one capture.
C35_DwellConsistent ==
  \A i \in 1..Len(dispatched) :
    Dwell(i) # Null =>
      /\ Dwell(i).previousUrl = dispatched[i].routeInfo.fromUrl
      /\ IF i = 1
         THEN Dwell(i).entryTime = 0
         ELSE /\ dispatched[i - 1].routeInfo.navigationTime <= Dwell(i).entryTime
              /\ Dwell(i).entryTime <= dispatched[i - 1].timestamp
      /\ Dwell(i).timeSpentMs >= 0
      /\ Dwell(i).exitTime - Dwell(i).entryTime = Dwell(i).timeSpentMs

\* ===================================================== SDK lifecycle claims
\* C36 (as claimed): when the last lifecycle call issued is stopCruxstack()
\* (isInitialized is false: only stopCruxstack clears it, and every
\* initCruxstack call leaves it set) and no initCruxstack call is suspended or
\* running, neither tracker is active; and whenever a tracker is active a
\* stopCruxstack() issued now is not refused as 'not initialized'.
C36_LifecycleInterleaving ==
  /\ (SdkIdle /\ ~sdkInitialized /\ sdkPending = <<>>) => (~clickIsActive /\ ~isActive)
  /\ (SdkIdle /\ (clickIsActive \/ isActive)) => sdkInitialized

\* ===================================================== custom-event delivery
\* the error cruxCustom rejects with when a transport failed
SendError == CruxSDKError("Error sending custom event")

\* calls that were settled after a transport had been called for them
SettledAfterSend ==
  {i \in 1..Len(customResults) :
     customResults[i] = Resolved \/ customResults[i] = Rejected(SendError)}

\* calls waiting for the response of the custom endpoint
AtFetch == {p \in pendingCustom : p.at = "fetch"}

\* call i is resolved by this step
Resolves(i) == customResults[i] = NotSettled /\ customResults'[i] = Resolved

\* C37: custom-event delivery.  Every call of cruxCustom with valid input makes
\* at most one transport call in all (never both transports for one event):
\* the Snowplow send when the call was made in browser mode, the custom
\* endpoint when it was made in non-browser mode or, in browser mode, only in
\* the step in which the Snowplow send failed.  A call is resolved only by the
\* step that makes its Snowplow send or by a successful response of the
\* endpoint it was sent to; a failed response rejects it; every rejection
\* carries a CruxSDKError.
C37_CustomDelivery ==
  [][/\ Len(structEvents') + Len(fetchCalls')
          = Cardinality(SettledAfterSend') + Cardinality(AtFetch')
     /\ Len(structEvents') + Len(fetchCalls') <= Len(structEvents) + Len(fetchCalls) + 1
     /\ structEvents' # structEvents =>
          \E p \in pendingCustom :
            /\ p.at = "import" /\ Resolves(p.call)
            /\ structEvents' = Append(structEvents, StructEvent(p.category, p.data))
     /\ fetchCalls' # fetchCalls =>
          \/ customCalls' = customCalls + 1 /\ ~browserModeEnabled'
               /\ Last(customResults') = NotSettled
          \/ \E p \in pendingCustom :
               p.at = "import" /\ [p EXCEPT !.at = "fetch"] \in pendingCustom'
     /\ \A i \in 1..Len(customResults) :
          Resolves(i) =>
            \E p \in pendingCustom :
              /\ p.call = i
              /\ \/ p.at = "import" /\ Len(structEvents') = Len(structEvents) + 1
                 \/ FetchSettled(p, TRUE)
     /\ \A p \in pendingCustom :
          FetchSettled(p, FALSE) => customResults'[p.call] = Rejected(SendError)
     /\ \A i \in 1..Len(customResults') :
          customResults'[i].settled = "rejected" =>
            customResults'[i].error.name = "CruxSDKError"]_vars

\* two valid calls are resolved and nothing is pending: one Snowplow send and
\* one request to the endpoint were made, and the plugin is in browser mode
C37_Witness ==
  /\ customResults = <<Resolved, Resolved>>
  /\ browserModeEnabled /\ pendingCustom = {}
  /\ Len(structEvents) = 1 /\ Len(fetchCalls) = 1

\* ===================================================== debounce claims
\* call j of the debounced function is the last call of its burst: the call
\* after it, if any, arrives no sooner than the wait after it
BurstEnd(j) ==
  \/ j = Len(debounceCalls)
  \/ debounceCalls[j + 1].at >= debounceCalls[j].at + DebounceWait

\* the invocations of func made the wait after call j
InvokedFor(j) ==
  {k \in 1..Len(funcCalls) : funcCalls[k].at = debounceCalls[j].at + DebounceWait}

====
